---- MODULE Spec2Model ----
(***************************************************************************)
(* Channel ingestion pipeline of TradingV1 (trading_prod):                 *)
(*   - fetch_message_batch : the retry / skip-ahead fetch of one batch     *)
(*   - main                : the round-robin service loop with the batch   *)
(*                           file, the batch-metadata row, the roster      *)
(*                           status update and the per-channel cursor      *)
(*   - LockFileHandler     : the lock file that doubles as a stop switch   *)
(*   - TelegramClientHandler, MessageStorageHandler.store_messages         *)
(*   - channelTracker (trading_dev): the sync of the table channels with   *)
(*                           the channels the source lists                 *)
(* The specifications share the variables: SpecFetch runs one call of      *)
(* fetch_message_batch against a source, one client request per step;      *)
(* Spec runs the service loop, where a whole fetch is one step, and        *)
(* SpecResume runs it on what earlier processes committed, SpecRestart on  *)
(* channels an earlier process left complete;                              *)
(* SpecHandlers calls acquire and release on handlers of one lock path;    *)
(* SpecInstances runs several processes of main on one lock path, the      *)
(* work on a channel being one step; SpecClient calls get_client and       *)
(* disconnect on one client handler; SpecStore calls store_messages;       *)
(* SpecTracker runs sync cycles of channelTracker.                         *)
(***************************************************************************)
EXTENDS Integers, Sequences, FiniteSets, TLC

VARIABLES
    fb,              \* locals of fetch_message_batch (SpecFetch)
    src,             \* the message source seen by one fetch (SpecFetch)
    hist,            \* client calls made and sleeps taken by one fetch
    pc,              \* position of main
    channel_states,  \* main: {channel_id: (offset_id, fetch_attempts, batch_count, total)}
    cyc,             \* main: locals of one pass of the while loop
    batches,         \* table channel_fetch_batches
    roster,          \* table channels
    files,           \* batch files on disk
    lock,            \* lock file on disk and the handler's descriptor
    feed,            \* highest message id each channel holds at the source
    env,             \* run parameters and budgets of the environment
    track,           \* per channel: the cursor it was seeded with, its run of empty fetches;
                     \* fetches begun with the lock file gone
    last,            \* outcome of the channel step main took last
    procs,           \* per handler or process: descriptor, position, exit code, history
    disk,            \* the lock path: the file it names, files created so far
    tg,              \* a TelegramClientHandler: its client, the sessions, the last call
    storage,         \* what a MessageStorageHandler writes: files, tables, the last call
    tracker          \* channelTracker: its table channels and its last sync cycle

vars == <<fb, src, hist, pc, channel_states, cyc, batches, roster, files, lock, feed, env, track, last,
          procs, disk, tg, storage, tracker>>

fetchVars == <<fb, src, hist>>
mainVars == <<pc, channel_states, cyc, batches, roster, files, lock, feed, env, track, last>>
lockVars == <<procs, disk>>
helperVars == <<tg, storage, tracker>>

(***************************************************************************)
(* Bounds of the model                                                     *)
(***************************************************************************)
MaxInject == 6       \* error signals the source may inject into one fetch
MaxSmallId == 3      \* ids 1..MaxSmallId of the small sources
MaxFeed == 1         \* messages posted to the live channel while the service runs
MaxCycles == 6       \* passes of the service loop per process
MaxPrior == 2        \* records that earlier processes may have committed
MaxFaults == 1       \* per run of the service: failures of the client and of the stores,
                     \* and configuration reloads falling due

(***************************************************************************)
(* Constants of the program                                                *)
(***************************************************************************)
max_retries == 5
max_skips == 50
max_attempts == 5
SkipStride == 100
PageCap == 100
WidePageCap == 200
FetchStatusInProgress == 1
FetchStatusComplete == 2

Min(a, b) == IF a < b THEN a ELSE b

Last(s) == s[Len(s)]

(***************************************************************************)
(* The message source: client.get_messages(channel, limit, offset_id,      *)
(* reverse=True) answers with the messages whose id is greater than        *)
(* offset_id, oldest first, at most limit of them.                         *)
(***************************************************************************)
MaxOf(S) == IF S = {} THEN 0 ELSE CHOOSE x \in S : \A y \in S : y <= x

Message(i, unreadable) == [id |-> i, readable |-> i \notin unreadable]

SourcePage(ids, unreadable, offset_id, limit) ==
    LET After(i) == i > offset_id /\ i \in ids
        all == SelectSeq([i \in 1..MaxOf(ids) |-> i], After)
        n == Min(limit, Len(all))
    IN  [k \in 1..n |-> Message(all[k], unreadable)]

PageResponse(messages) == [kind |-> "page", messages |-> messages, seconds |-> 0]
FloodWaitError(seconds) == [kind |-> "flood", messages |-> <<>>, seconds |-> seconds]
TypeNotFoundError == [kind |-> "unreadable", messages |-> <<>>, seconds |-> 0]
OtherError == [kind |-> "error", messages |-> <<>>, seconds |-> 0]

\* What the source answers to one request when it injects no error signal:
\* a page, or, for a source whose unreadable data fails the whole request,
\* the record-unreadable signal when the page holds an unreadable message.
SourceAnswer(s, offset_id, limit) ==
    LET page == SourcePage(s.ids, s.unreadable, offset_id, limit)
    IN  IF s.raises /\ \E k \in 1..Len(page) : ~page[k].readable
        THEN TypeNotFoundError
        ELSE PageResponse(page)

(***************************************************************************)
(* fetch_message_batch                                                     *)
(***************************************************************************)
\* current_offset = offset_id ...: lines 192-199
FetchStart(offset_id, batch_size) ==
    [current_offset |-> offset_id, valid_messages |-> <<>>, messages_fetched |-> 0,
     retries |-> 0, skips |-> 0, running |-> 0 < batch_size]

\* faulty variant: the request is widened only once skips reaches max_skips
fetch_size_widened_late(st, batch_size) ==
    IF st.skips < max_skips
    THEN Min(batch_size - st.messages_fetched, PageCap)
    ELSE Min(batch_size - st.messages_fetched, WidePageCap)

\* faulty variant: the request asks for one record more than the batch lacks
fetch_size_one_more(st, batch_size) ==
    IF st.skips < max_skips \div 2
    THEN Min(batch_size - st.messages_fetched + 1, PageCap)
    ELSE Min(batch_size - st.messages_fetched + 1, WidePageCap)

\* fetch_size = min(batch_size - messages_fetched, 100) if skips < max_skips // 2
\* else min(batch_size - messages_fetched, 200): line 202
fetch_size(st, batch_size) ==
    IF st.skips < max_skips \div 2
    THEN Min(batch_size - st.messages_fetched, PageCap)
    ELSE Min(batch_size - st.messages_fetched, WidePageCap)

\* the body of the loop for a message that was read: lines 213-219
OnReadable(st, msg) ==
    [st EXCEPT !.valid_messages = Append(@, msg.id),
               !.messages_fetched = @ + 1,
               !.current_offset = msg.id,
               !.retries = 0,
               !.skips = 0]

\* the body of the loop for a message that raised TypeNotFoundError: lines 220-225
OnUnreadable(st) ==
    [st EXCEPT !.current_offset = @ + 1, !.skips = @ + 1, !.retries = 0]

\* faulty variant: a readable record leaves current_offset where it was
RECURSIVE ForEachMessageKeepsOffset(_, _, _, _)
ForEachMessageKeepsOffset(st, messages, lo, hi) ==
    IF lo > hi THEN st
    ELSE IF lo = hi
    THEN IF messages[lo].readable
         THEN [OnReadable(st, messages[lo]) EXCEPT !.current_offset = st.current_offset]
         ELSE OnUnreadable(st)
    ELSE LET mid == (lo + hi) \div 2
             left == ForEachMessageKeepsOffset(st, messages, lo, mid)
         IN  IF left.skips >= 0
             THEN ForEachMessageKeepsOffset(left, messages, mid + 1, hi)
             ELSE left

\* for msg in messages: lines 212-225, on messages[lo..hi] in order. The loop
\* over lo..hi is the loop over lo..mid followed by the loop over mid+1..hi;
\* left is the state between the two, and the test on it (skips is never
\* negative) has it computed before the second half starts, which keeps the
\* evaluation shallow on a page of many records.
RECURSIVE ForEachMessage(_, _, _, _)
ForEachMessage(st, messages, lo, hi) ==
    IF lo > hi THEN st
    ELSE IF lo = hi
    THEN IF messages[lo].readable
         THEN OnReadable(st, messages[lo])
         ELSE OnUnreadable(st)
    ELSE LET mid == (lo + hi) \div 2
             left == ForEachMessage(st, messages, lo, mid)
         IN  IF left.skips >= 0
             THEN ForEachMessage(left, messages, mid + 1, hi)
             ELSE left

\* "Jump offset after many skips": lines 231-234
JumpAfterSkips(st) ==
    IF st.skips >= max_skips
    THEN [st EXCEPT !.current_offset = @ + SkipStride, !.skips = 0]
    ELSE st

\* faulty variant: a page shorter than the request does not end the fetch
OnPageUntilEmpty(st, batch_size, messages) ==
    IF Len(messages) = 0 THEN [st EXCEPT !.running = FALSE]
    ELSE LET s2 == JumpAfterSkips(ForEachMessage(st, messages, 1, Len(messages)))
         IN  [s2 EXCEPT !.running = s2.messages_fetched < batch_size]

\* the try body after the request returned: lines 209-234, then the while test
OnPage(st, batch_size, messages) ==
    IF Len(messages) = 0 THEN [st EXCEPT !.running = FALSE]
    ELSE LET s1 == ForEachMessage(st, messages, 1, Len(messages))
         IN  IF Len(messages) < fetch_size(st, batch_size)
             THEN [s1 EXCEPT !.running = FALSE]
             ELSE LET s2 == JumpAfterSkips(s1)
                  IN  [s2 EXCEPT !.running = s2.messages_fetched < batch_size]

\* faulty variant: the retry budget is tested with > instead of >=
OnFloodWaitOneMore(st) ==
    LET r == st.retries + 1
    IN  [st EXCEPT !.retries = r, !.running = ~(r > max_retries)]

\* except FloodWaitError: lines 235-241 (the sleep is recorded in hist)
OnFloodWait(st) ==
    LET r == st.retries + 1
    IN  [st EXCEPT !.retries = r, !.running = ~(r >= max_retries)]

\* except TypeNotFoundError: lines 242-247
OnTypeNotFound(st) ==
    [st EXCEPT !.current_offset = @ + 1, !.skips = @ + 1, !.retries = 0]

\* except Exception: lines 248-253
OnException(st) ==
    LET r == st.retries + 1
    IN  [st EXCEPT !.retries = r, !.running = ~(r >= max_retries)]

\* one pass of the while loop of fetch_message_batch on the answer resp
FetchStep(st, batch_size, resp) ==
    CASE resp.kind = "page" -> OnPage(st, batch_size, resp.messages)
      [] resp.kind = "flood" -> OnFloodWait(st)
      [] resp.kind = "unreadable" -> OnTypeNotFound(st)
      [] OTHER -> OnException(st)


(***************************************************************************)
(* SpecFetch: one call fetch_message_batch(client, channel_id,             *)
(* src.offset_id, src.batch_size, logger), one client request per step.    *)
(***************************************************************************)
\* the run of unreadable records of the skip-ahead scenario
CorruptRun == max_skips + 10

SmallSources ==
    { [ids |-> ids, unreadable |-> u, raises |-> r, wait |-> w,
       offset_id |-> o, batch_size |-> b, budget |-> MaxInject] :
        ids \in SUBSET (1..MaxSmallId), u \in SUBSET (1..MaxSmallId),
        r \in BOOLEAN, w \in {1, 2}, o \in {0, 1}, b \in 1..MaxSmallId }

CorruptRunSources ==
    { [ids |-> 1..(CorruptRun + 1), unreadable |-> 1..CorruptRun, raises |-> r,
       wait |-> 1, offset_id |-> 0, batch_size |-> b, budget |-> 0] :
        r \in BOOLEAN, b \in {1, 10, CorruptRun + 1, PageCap, PageCap + WidePageCap} }

Sources == { s \in SmallSources : s.unreadable \subseteq s.ids } \cup CorruptRunSources

\* failed_run: the calls that failed with FloodWaitError or another exception
\* since the fetch began or last collected a record
NoHistory == [calls |-> 0, floods |-> 0, errors |-> 0, raised |-> 0, injected |-> 0,
              slept |-> <<>>, failed_run |-> 0]

FetchIdle ==
    /\ fb = FetchStart(0, 0)
    /\ src = [ids |-> {}, unreadable |-> {}, raises |-> FALSE, wait |-> 1,
              offset_id |-> 0, batch_size |-> 0, budget |-> 0]
    /\ hist = NoHistory

FetchInit ==
    /\ src \in Sources
    /\ fb = FetchStart(src.offset_id, src.batch_size)
    /\ hist = NoHistory

\* client.get_messages answered by the source's content
FetchRequest ==
    /\ fb.running
    /\ LET resp == SourceAnswer(src, fb.current_offset, fetch_size(fb, src.batch_size))
       IN  /\ fb' = FetchStep(fb, src.batch_size, resp)
           /\ hist' = [hist EXCEPT !.calls = @ + 1,
                                   !.raised = IF resp.kind = "unreadable" THEN @ + 1 ELSE @,
                                   !.failed_run =
                                       IF Len(fb'.valid_messages) > Len(fb.valid_messages)
                                       THEN 0 ELSE @]
    /\ UNCHANGED <<src>>
    /\ UNCHANGED <<mainVars, lockVars, helperVars>>

\* client.get_messages raises FloodWaitError; the fetch sleeps e.seconds
FetchFlood ==
    /\ fb.running
    /\ hist.injected < src.budget
    /\ LET resp == FloodWaitError(src.wait)
       IN  /\ fb' = FetchStep(fb, src.batch_size, resp)
           /\ hist' = [hist EXCEPT !.calls = @ + 1, !.floods = @ + 1, !.injected = @ + 1,
                                   !.slept = Append(@, resp.seconds),
                                   !.failed_run = @ + 1]
    /\ UNCHANGED <<src>>
    /\ UNCHANGED <<mainVars, lockVars, helperVars>>

\* client.get_messages raises TypeNotFoundError
FetchUnreadable ==
    /\ fb.running
    /\ hist.injected < src.budget
    /\ fb' = FetchStep(fb, src.batch_size, TypeNotFoundError)
    /\ hist' = [hist EXCEPT !.calls = @ + 1, !.raised = @ + 1, !.injected = @ + 1]
    /\ UNCHANGED <<src>>
    /\ UNCHANGED <<mainVars, lockVars, helperVars>>

\* client.get_messages raises any other exception
FetchError ==
    /\ fb.running
    /\ hist.injected < src.budget
    /\ fb' = FetchStep(fb, src.batch_size, OtherError)
    /\ hist' = [hist EXCEPT !.calls = @ + 1, !.errors = @ + 1, !.injected = @ + 1,
                            !.failed_run = @ + 1]
    /\ UNCHANGED <<src>>
    /\ UNCHANGED <<mainVars, lockVars, helperVars>>


(***************************************************************************)
(* The service: tables, batch files, lock file, main                       *)
(***************************************************************************)
Channels == {1, 2}

\* the channel that holds messages; the other one is drained
LiveChannel == CHOOSE c \in Channels : \A d \in Channels : c <= d

\* batch sizes and --max-batches values the service is run with
BatchSizes == {1, 2}
MaxBatchesArgs == {0, 1}

\* the settings a configuration file gives: fetch.batch_size,
\* fetch.sleep_seconds, fetch.pause_seconds
Config(b) == [batch_size |-> b, sleep_seconds |-> 4 + b, pause_seconds |-> b]
Configs == { Config(b) : b \in BatchSizes }
NoSettings == [batch_size |-> 0, sleep_seconds |-> 0, pause_seconds |-> 0]

\* batch_size, sleep_seconds, pause_seconds of main
Settings(e) ==
    [batch_size |-> e.batch_size, sleep_seconds |-> e.sleep_seconds,
     pause_seconds |-> e.pause_seconds]

\* what the top of a pass does about the periodic reload: the interval has not
\* elapsed, reload_config returned a new configuration, or it returned None
Reloads == {"none", "ok", "failed"}

\* faulty variant: a successful reload refreshes batch_size only
reload_config_batch_size_only(e, how, new) ==
    IF how = "ok" THEN [e EXCEPT !.batch_size = new.batch_size] ELSE e

\* if new_config: batch_size, sleep_seconds, pause_seconds = its values
\* (lines 493-502); None leaves the three as they are
reload_config(e, how, new) ==
    IF how = "ok"
    THEN [e EXCEPT !.batch_size = new.batch_size,
                   !.sleep_seconds = new.sleep_seconds,
                   !.pause_seconds = new.pause_seconds]
    ELSE e

\* the reloads the environment can produce at the top of a pass
ReloadDue(e, how, new) ==
    /\ how = "ok" \/ new = NoSettings
    /\ how # "none" => e.faults < MaxFaults

\* the budgets of the environment after that top of a pass
ReloadCounted(e, how) ==
    [e EXCEPT !.faults = IF how = "none" THEN @ ELSE @ + 1]

\* the whole of one fetch_message_batch call: the client answers the first
\* requests with the signals of script, then from the channel's content
RECURSIVE FetchRun(_, _, _)
FetchRun(st, s, script) ==
    IF ~st.running THEN st.valid_messages
    ELSE LET resp == IF script # <<>> THEN Head(script)
                     ELSE SourceAnswer(s, st.current_offset, fetch_size(st, s.batch_size))
         IN  FetchRun(FetchStep(st, s.batch_size, resp), s,
                      IF script # <<>> THEN Tail(script) ELSE script)

fetch_message_batch(ids, offset_id, batch_size, script) ==
    FetchRun(FetchStart(offset_id, batch_size),
             [ids |-> ids, unreadable |-> {}, raises |-> FALSE, batch_size |-> batch_size],
             script)

\* error signals the client may answer a fetch of the service with
FetchScripts ==
    { <<>>,
      <<OtherError>>,
      [k \in 1..max_retries |-> FloodWaitError(1)] }

\* SELECT ... FROM channels c WHERE c.Operating = 1 AND c.Disappeared = 0, with
\* MAX(last_message_id) of the channel's batch rows (0 stands for NULL)
last_processed_id(rows, c) ==
    MaxOf({ r.last_message_id : r \in { x \in rows : x.channel_id = c } })

fetch_active_channels(ros, rows) ==
    LET Active(c) == ros[c].Operating = 1 /\ ros[c].Disappeared = 0
        ordered == SelectSeq([c \in 1..MaxOf(Channels) |-> c], Active)
    IN  [k \in 1..Len(ordered) |->
            [ID |-> ordered[k], last_processed_id |-> last_processed_id(rows, ordered[k])]]

\* faulty variant: the offset is taken from the store on every pass
SeedStateFromStore(states, channel) ==
    IF channel.ID \in DOMAIN states
    THEN [states[channel.ID] EXCEPT !.offset_id = channel.last_processed_id]
    ELSE [offset_id |-> channel.last_processed_id, fetch_attempts |-> 0,
          batch_count |-> 0, total_messages_fetched |-> 0]

\* channel_states[channel_id] = (last_processed_id if last_processed_id else 0, 0, 0, 0)
SeedState(states, channel) ==
    IF channel.ID \in DOMAIN states
    THEN states[channel.ID]
    ELSE [offset_id |-> channel.last_processed_id, fetch_attempts |-> 0,
          batch_count |-> 0, total_messages_fetched |-> 0]

\* the file store_messages_to_file writes: the messages and the status record
store_messages_to_file(messages, channel_id, batch_count, total_messages_fetched) ==
    [path |-> <<channel_id, batch_count>>, message_ids |-> messages,
     batch_number |-> batch_count, total_messages_fetched |-> total_messages_fetched]

\* the row record_batch_metadata inserts into channel_fetch_batches
record_batch_metadata(channel_id, msg_filename, messages) ==
    [channel_id |-> channel_id, message_file_path |-> msg_filename,
     first_message_id |-> messages[1], last_message_id |-> Last(messages),
     message_count |-> Len(messages)]

\* faulty variant: the completion threshold is tested with > instead of >=
update_channel_status_late(row, messages, fetch_attempts) ==
    IF messages # <<>>
    THEN [row EXCEPT !.earliest_raw_message_ID = Last(messages),
                     !.latest_raw_message_ID = messages[1],
                     !.FetchStatus = FetchStatusInProgress,
                     !.fetch_attempts = 0]
    ELSE LET n == fetch_attempts + 1
         IN  IF n > max_attempts
             THEN [row EXCEPT !.FetchStatus = FetchStatusComplete, !.fetch_attempts = n]
             ELSE [row EXCEPT !.FetchStatus = FetchStatusInProgress, !.fetch_attempts = n]

\* faulty variant: a non-empty batch leaves FetchStatus and fetch_attempts as they are
update_channel_status_no_reset(row, messages, fetch_attempts) ==
    IF messages # <<>>
    THEN [row EXCEPT !.earliest_raw_message_ID = Last(messages),
                     !.latest_raw_message_ID = messages[1]]
    ELSE LET n == fetch_attempts + 1
         IN  IF n >= max_attempts
             THEN [row EXCEPT !.FetchStatus = FetchStatusComplete, !.fetch_attempts = n]
             ELSE [row EXCEPT !.FetchStatus = FetchStatusInProgress, !.fetch_attempts = n]

\* the UPDATE update_channel_status issues on the channel's row
update_channel_status(row, messages, fetch_attempts) ==
    IF messages # <<>>
    THEN [row EXCEPT !.earliest_raw_message_ID = Last(messages),
                     !.latest_raw_message_ID = messages[1],
                     !.FetchStatus = FetchStatusInProgress,
                     !.fetch_attempts = 0]
    ELSE LET n == fetch_attempts + 1
         IN  IF n >= max_attempts
             THEN [row EXCEPT !.FetchStatus = FetchStatusComplete, !.fetch_attempts = n]
             ELSE [row EXCEPT !.FetchStatus = FetchStatusInProgress, !.fetch_attempts = n]

\* faulty variant: an empty fetch counts as a batch
ChannelStateAfterCountsEmpty(state, messages) ==
    IF messages # <<>>
    THEN [offset_id |-> Last(messages), fetch_attempts |-> 0,
          batch_count |-> state.batch_count + 1,
          total_messages_fetched |-> state.total_messages_fetched + Len(messages)]
    ELSE [state EXCEPT !.fetch_attempts = @ + 1, !.batch_count = @ + 1]

\* faulty variant: an empty fetch sends the channel back to the beginning
ChannelStateAfterRewind(state, messages) ==
    IF messages # <<>>
    THEN [offset_id |-> Last(messages), fetch_attempts |-> 0,
          batch_count |-> state.batch_count + 1,
          total_messages_fetched |-> state.total_messages_fetched + Len(messages)]
    ELSE [state EXCEPT !.offset_id = 0, !.fetch_attempts = @ + 1]

\* the tuple main keeps for the channel after the fetch: offset_id =
\* messages[-1].id and fetch_attempts = 0 after a batch, fetch_attempts += 1
\* after an empty fetch
ChannelStateAfter(state, messages) ==
    IF messages # <<>>
    THEN [offset_id |-> Last(messages), fetch_attempts |-> 0,
          batch_count |-> state.batch_count + 1,
          total_messages_fetched |-> state.total_messages_fetched + Len(messages)]
    ELSE [state EXCEPT !.fetch_attempts = @ + 1]

\* faulty variant: the cap is tested with > instead of >=
ReachedMaxBatchesLate(max_batches, batch_count) ==
    max_batches > 0 /\ batch_count > max_batches

\* "Skip channels that reached max_batches"
ReachedMaxBatches(max_batches, batch_count) ==
    max_batches > 0 /\ batch_count >= max_batches

NoCycle == [channels |-> <<>>, idx |-> 0, any_messages_fetched |-> FALSE,
            active_channels |-> <<>>, reload |-> "none", config |-> NoSettings]

NoStep == [kind |-> "none", channel_id |-> 0, messages |-> <<>>, offset_before |-> 0,
           status_before |-> 0, file_written |-> FALSE, meta_written |-> FALSE,
           status_written |-> FALSE]

RosterRow(operating) ==
    [Operating |-> operating, Disappeared |-> 0, FetchStatus |-> FetchStatusInProgress,
     fetch_attempts |-> 0, earliest_raw_message_ID |-> 0, latest_raw_message_ID |-> 0]

EmptyStates == [c \in {} |-> 0]

MainInit ==
    /\ pc = "acquire"
    /\ channel_states = EmptyStates
    /\ cyc = NoCycle
    /\ batches = {}
    /\ \E ops \in [Channels -> {0, 1}] : roster = [c \in Channels |-> RosterRow(ops[c])]
    /\ files = {}
    /\ lock = [exists |-> FALSE, lock_fd |-> FALSE]
    /\ \E backlog \in {0, 1} :
          feed = [c \in Channels |-> IF c = LiveChannel THEN backlog ELSE 0]
    /\ \E b \in BatchSizes, m \in MaxBatchesArgs :
          env = [batch_size |-> b, sleep_seconds |-> Config(b).sleep_seconds,
                 pause_seconds |-> Config(b).pause_seconds, max_batches |-> m,
                 cycles |-> 0, faults |-> 0, posted |-> 0]
    /\ track = [seed |-> [c \in Channels |-> 0], empties |-> [c \in Channels |-> 0],
               late |-> 0]
    /\ last = NoStep

\* the row and the file an earlier process left for the batch of channel c
\* that ended at record id
PriorRow(c, id) ==
    [channel_id |-> c, message_file_path |-> <<c, -id>>, first_message_id |-> id,
     last_message_id |-> id, message_count |-> 1]

PriorFile(c, id) ==
    [path |-> <<c, -id>>, message_ids |-> <<id>>, batch_number |-> id,
     total_messages_fetched |-> id]

\* main starts on the tables and files earlier processes left: a batch of the
\* live channel for each of its first records, MaxPrior of them at most, and one
\* more record waiting at the source
MainResume ==
    /\ pc = "acquire"
    /\ channel_states = EmptyStates
    /\ cyc = NoCycle
    /\ \E prior \in { 1..n : n \in 0..MaxPrior } :
          /\ batches = { PriorRow(LiveChannel, id) : id \in prior }
          /\ files = { PriorFile(LiveChannel, id) : id \in prior }
          /\ feed = [c \in Channels |-> IF c = LiveChannel THEN MaxOf(prior) + 1 ELSE 0]
    /\ roster = [c \in Channels |-> RosterRow(1)]
    /\ lock = [exists |-> FALSE, lock_fd |-> FALSE]
    /\ \E m \in MaxBatchesArgs :
          env = [batch_size |-> 1, sleep_seconds |-> Config(1).sleep_seconds,
                 pause_seconds |-> Config(1).pause_seconds, max_batches |-> m,
                 cycles |-> 0, faults |-> 0, posted |-> 0]
    /\ track = [seed |-> [c \in Channels |-> 0], empties |-> [c \in Channels |-> 0],
               late |-> 0]
    /\ last = NoStep

\* the roster row an earlier process left complete: its fifth consecutive
\* empty fetch wrote FetchStatus = 2 and fetch_attempts = 5 (lines 426-435)
\* after its last batch, which ended at record id (0: no batch)
CompleteRow(id) ==
    [RosterRow(1) EXCEPT !.FetchStatus = FetchStatusComplete,
                         !.fetch_attempts = max_attempts,
                         !.earliest_raw_message_ID = id,
                         !.latest_raw_message_ID = id]

\* main is started again after an earlier process marked every channel
\* complete: channel_states is empty again, the tables and files are as that
\* process left them, and the live channel holds nothing new or one new record
MainRestart ==
    /\ pc = "acquire"
    /\ channel_states = EmptyStates
    /\ cyc = NoCycle
    /\ \E prior \in { 1..n : n \in 0..MaxPrior }, backlog \in {0, 1} :
          /\ batches = { PriorRow(LiveChannel, id) : id \in prior }
          /\ files = { PriorFile(LiveChannel, id) : id \in prior }
          /\ feed = [c \in Channels |->
                        IF c = LiveChannel THEN MaxOf(prior) + backlog ELSE 0]
          /\ roster = [c \in Channels |->
                          CompleteRow(IF c = LiveChannel THEN MaxOf(prior) ELSE 0)]
    /\ lock = [exists |-> FALSE, lock_fd |-> FALSE]
    /\ \E m \in MaxBatchesArgs :
          env = [batch_size |-> 1, sleep_seconds |-> Config(1).sleep_seconds,
                 pause_seconds |-> Config(1).pause_seconds, max_batches |-> m,
                 cycles |-> 0, faults |-> 0, posted |-> 0]
    /\ track = [seed |-> [c \in Channels |-> 0], empties |-> [c \in Channels |-> 0],
               late |-> 0]
    /\ last = NoStep

MainIdle ==
    /\ pc = "off"
    /\ channel_states = EmptyStates
    /\ cyc = NoCycle
    /\ batches = {}
    /\ roster = [c \in Channels |-> RosterRow(0)]
    /\ files = {}
    /\ lock = [exists |-> FALSE, lock_fd |-> FALSE]
    /\ feed = [c \in Channels |-> 0]
    /\ env = [batch_size |-> 0, sleep_seconds |-> 0, pause_seconds |-> 0, max_batches |-> 0,
              cycles |-> 0, faults |-> 0, posted |-> 0]
    /\ track = [seed |-> [c \in Channels |-> 0], empties |-> [c \in Channels |-> 0],
               late |-> 0]
    /\ last = NoStep

\* lock_handler.acquire(): open(lock_file_path, 'w') and lock it
Acquire ==
    /\ pc = "acquire"
    /\ lock' = [exists |-> TRUE, lock_fd |-> TRUE]
    /\ pc' = "top"
    /\ UNCHANGED <<channel_states, cyc, batches, roster, files, feed, env, track, last>>
    /\ UNCHANGED <<fetchVars, lockVars, helperVars>>

\* top of the while loop, the lock file is gone: break
StopAtTop ==
    /\ pc = "top"
    /\ ~lock.exists
    /\ pc' = "finally"
    /\ UNCHANGED <<channel_states, cyc, batches, roster, files, lock, feed, env, track, last>>
    /\ UNCHANGED <<fetchVars, lockVars, helperVars>>

\* top of the while loop: the configuration is reloaded when due; the roster
\* query failed or found no active channel; sleep and continue
IdleCycle ==
    /\ pc = "top"
    /\ lock.exists
    /\ env.cycles < MaxCycles
    /\ \E query_ok \in BOOLEAN, how \in Reloads, new \in Configs \cup {NoSettings} :
          LET e == ReloadCounted(reload_config(env, how, new), how)
          IN  /\ ReloadDue(env, how, new)
              /\ query_ok \/ e.faults < MaxFaults
              /\ ~query_ok \/ fetch_active_channels(roster, batches) = <<>>
              /\ env' = [e EXCEPT !.cycles = @ + 1,
                                  !.faults = IF query_ok THEN @ ELSE @ + 1]
    /\ UNCHANGED <<pc, channel_states, cyc, batches, roster, files, lock, feed, track, last>>
    /\ UNCHANGED <<fetchVars, lockVars, helperVars>>

\* top of the while loop: the configuration is reloaded when due, the roster
\* is loaded and the for loop starts
StartCycle ==
    /\ pc = "top"
    /\ lock.exists
    /\ env.cycles < MaxCycles
    /\ \E how \in Reloads, new \in Configs \cup {NoSettings} :
          LET channels == fetch_active_channels(roster, batches)
              e == ReloadCounted(reload_config(env, how, new), how)
          IN  /\ ReloadDue(env, how, new)
              /\ channels # <<>>
              /\ cyc' = [channels |-> channels, idx |-> 1, any_messages_fetched |-> FALSE,
                         active_channels |-> <<>>, reload |-> how, config |-> new]
              /\ env' = [e EXCEPT !.cycles = @ + 1]
    /\ pc' = "channel"
    /\ UNCHANGED <<channel_states, batches, roster, files, lock, feed, track, last>>
    /\ UNCHANGED <<fetchVars, lockVars, helperVars>>

\* where the for loop goes after the channel at cyc.idx
AfterChannel(idx) == IF idx < Len(cyc.channels) THEN "channel" ELSE "end_cycle"

\* for channel in channels: the channel reached max_batches, continue
SkipChannel ==
    /\ pc = "channel"
    /\ LET channel == cyc.channels[cyc.idx]
           c == channel.ID
           state == SeedState(channel_states, channel)
       IN  /\ ReachedMaxBatches(env.max_batches, state.batch_count)
           /\ channel_states' = [x \in DOMAIN channel_states \cup {c} |->
                                    IF x = c THEN state ELSE channel_states[x]]
           /\ track' = IF c \in DOMAIN channel_states THEN track
                       ELSE [track EXCEPT !.seed[c] = state.offset_id]
           /\ last' = [NoStep EXCEPT !.kind = "skipped", !.channel_id = c,
                                     !.offset_before = state.offset_id,
                                     !.status_before = roster[c].FetchStatus]
    /\ cyc' = [cyc EXCEPT !.idx = @ + 1]
    /\ pc' = AfterChannel(cyc.idx)
    /\ UNCHANGED <<batches, roster, files, lock, feed, env>>
    /\ UNCHANGED <<fetchVars, lockVars, helperVars>>

\* for channel in channels: fetch a batch, store it, update the status and
\* the channel's state, pause (lines 513-542)
ProcessChannel ==
    /\ pc = "channel"
    /\ \E script \in FetchScripts, file_ok \in BOOLEAN, meta_ok \in BOOLEAN,
          status_ok \in BOOLEAN :
        LET channel == cyc.channels[cyc.idx]
            c == channel.ID
            state == SeedState(channel_states, channel)
            messages == fetch_message_batch(1..feed[c], state.offset_id, env.batch_size,
                                            script)
            got == messages # <<>>
            batch_count == IF got THEN state.batch_count + 1 ELSE state.batch_count
            total == state.total_messages_fetched + Len(messages)
            msg_filename == <<c, batch_count>>
            file_written == got /\ file_ok
            meta_written == file_written /\ meta_ok
            nfaults == (IF script # <<>> THEN 1 ELSE 0) + (IF file_ok THEN 0 ELSE 1)
                       + (IF meta_ok THEN 0 ELSE 1) + (IF status_ok THEN 0 ELSE 1)
            newstate == ChannelStateAfter(state, messages)
        IN  /\ ~ReachedMaxBatches(env.max_batches, state.batch_count)
            /\ env.faults + nfaults <= MaxFaults
            /\ env' = [env EXCEPT !.faults = @ + nfaults]
            \* outcomes that cannot differ are taken once
            /\ got \/ (file_ok /\ meta_ok)
            /\ file_ok \/ meta_ok
            /\ files' = IF file_written
                        THEN files \cup {store_messages_to_file(messages, c, batch_count,
                                                                total)}
                        ELSE files
            /\ batches' = IF meta_written
                          THEN batches \cup {record_batch_metadata(c, msg_filename, messages)}
                          ELSE batches
            /\ roster' = IF status_ok
                         THEN [roster EXCEPT
                                 ![c] = update_channel_status(@, messages,
                                                              state.fetch_attempts)]
                         ELSE roster
            /\ channel_states' = [x \in DOMAIN channel_states \cup {c} |->
                                     IF x = c THEN newstate ELSE channel_states[x]]
            /\ cyc' = [cyc EXCEPT !.any_messages_fetched = @ \/ got,
                                  !.active_channels = Append(@, c)]
            /\ track' = [track EXCEPT
                           !.seed[c] = IF c \in DOMAIN channel_states THEN @
                                       ELSE state.offset_id,
                           !.empties[c] = IF got THEN 0 ELSE @ + 1,
                           !.late = IF lock.exists THEN @ ELSE @ + 1]
            /\ last' = [kind |-> IF got THEN "batch" ELSE "empty", channel_id |-> c,
                        messages |-> messages, offset_before |-> state.offset_id,
                        status_before |-> roster[c].FetchStatus,
                        file_written |-> file_written, meta_written |-> meta_written,
                        status_written |-> status_ok]
    /\ pc' = "lock_check"
    /\ UNCHANGED <<lock, feed>>
    /\ UNCHANGED <<fetchVars, lockVars, helperVars>>

\* faulty variant: a failed file or store write of the channel leaves the loop
StopAfterChannelOrFailure ==
    /\ pc = "lock_check"
    /\ \/ ~lock.exists
       \/ last.kind = "batch" /\ ~(last.file_written /\ last.meta_written)
       \/ ~last.status_written
    /\ pc' = "finally"
    /\ UNCHANGED <<channel_states, cyc, batches, roster, files, lock, feed, env, track, last>>
    /\ UNCHANGED <<fetchVars, lockVars, helperVars>>

\* "Check lock file after each channel": gone, return
StopAfterChannel ==
    /\ pc = "lock_check"
    /\ ~lock.exists
    /\ pc' = "finally"
    /\ UNCHANGED <<channel_states, cyc, batches, roster, files, lock, feed, env, track, last>>
    /\ UNCHANGED <<fetchVars, lockVars, helperVars>>

\* faulty variant: the lock file is not looked at after a channel
NextChannelUnchecked ==
    /\ pc = "lock_check"
    /\ cyc' = [cyc EXCEPT !.idx = @ + 1]
    /\ pc' = AfterChannel(cyc.idx)
    /\ last' = NoStep
    /\ UNCHANGED <<channel_states, batches, roster, files, lock, feed, env, track>>
    /\ UNCHANGED <<fetchVars, lockVars, helperVars>>

\* "Check lock file after each channel": still there, next channel
NextChannel ==
    /\ pc = "lock_check"
    /\ lock.exists
    /\ cyc' = [cyc EXCEPT !.idx = @ + 1]
    /\ pc' = AfterChannel(cyc.idx)
    /\ last' = NoStep
    /\ UNCHANGED <<channel_states, batches, roster, files, lock, feed, env, track>>
    /\ UNCHANGED <<fetchVars, lockVars, helperVars>>

\* end of the for loop: sleep if nothing was fetched; break if no channel
\* was active (lines 549-554); the locals of the pass are dead from here on
EndCycle ==
    /\ pc = "end_cycle"
    /\ pc' = IF cyc.active_channels = <<>> THEN "finally" ELSE "top"
    /\ cyc' = NoCycle
    /\ UNCHANGED <<channel_states, batches, roster, files, lock, feed, env, track, last>>
    /\ UNCHANGED <<fetchVars, lockVars, helperVars>>

\* LockFileHandler.release, as run by the finally block of main
release(l) ==
    IF l.lock_fd THEN [exists |-> FALSE, lock_fd |-> FALSE] ELSE l

\* finally: lock_handler.release(); client.disconnect(); sys.exit(0)
Finally ==
    /\ pc = "finally"
    /\ lock' = release(lock)
    /\ pc' = "exited"
    /\ UNCHANGED <<channel_states, cyc, batches, roster, files, feed, env, track, last>>
    /\ UNCHANGED <<fetchVars, lockVars, helperVars>>

\* the operator removes the lock file to stop the service
DeleteLock ==
    /\ pc \in {"top", "channel", "lock_check", "end_cycle"}
    /\ lock.exists
    /\ lock' = [lock EXCEPT !.exists = FALSE]
    /\ UNCHANGED <<pc, channel_states, cyc, batches, roster, files, feed, env, track, last>>
    /\ UNCHANGED <<fetchVars, lockVars, helperVars>>

\* a message is posted to the live channel (the service sees it from the next
\* request on, so postings between two cycles stand for all of them)
NewMessage ==
    /\ pc = "top"
    /\ env.posted < MaxFeed
    /\ feed' = [feed EXCEPT ![LiveChannel] = @ + 1]
    /\ env' = [env EXCEPT !.posted = @ + 1]
    /\ UNCHANGED <<pc, channel_states, cyc, batches, roster, files, lock, track, last>>
    /\ UNCHANGED <<fetchVars, lockVars, helperVars>>

(***************************************************************************)
(* The lock path and LockFileHandler (helper/lockfile.py) on POSIX files:  *)
(* a lock is held through an open descriptor on a file; a file removed     *)
(* from the path stays locked for the descriptors open on it, while the    *)
(* path is free for a new file.                                            *)
(***************************************************************************)
MaxInstances == 2    \* handlers, or processes of main, on the one lock path
MaxLockFiles == 3    \* lock files the handlers of SpecHandlers create in all

Instances == 1..MaxInstances

\* self.lock_fd = None
NoFd == [state |-> "none", inode |-> 0]

\* no file at the lock path, none created yet
NoDisk == [at |-> 0, made |-> 0]

\* a handler (SpecHandlers) or a process of main with its handler (SpecInstances)
NoProc(at) ==
    [pc |-> at, lock_fd |-> NoFd, exit_code |-> -1, releases |-> 0, call |-> "none",
     error |-> "none", stop |-> "none", ran |-> FALSE, created |-> 0, acquired |-> FALSE,
     failed |-> FALSE]

\* the files on which a handler other than h holds the lock
LockedByOthers(ps, h) ==
    { ps[o].lock_fd.inode : o \in { x \in Instances \ {h} : ps[x].lock_fd.state = "open" } }

\* faulty variant: the lock is taken without LOCK_NB | LOCK_EX being refused
LockFileHandler_acquire_unchecked(lock_fd, d, locked, open_ok) ==
    IF ~open_ok
    THEN [lock_fd |-> IF lock_fd.state = "none" THEN lock_fd
                      ELSE [state |-> "closed", inode |-> lock_fd.inode],
          disk |-> d, error |-> "OSError"]
    ELSE LET d1 == IF d.at = 0 THEN [at |-> d.made + 1, made |-> d.made + 1] ELSE d
         IN  [lock_fd |-> [state |-> "open", inode |-> d1.at], disk |-> d1,
              error |-> "none"]

\* LockFileHandler.acquire: open(lock_file_path, 'w') creates the file when the
\* path is free; portalocker.lock(LOCK_EX | LOCK_NB) is refused at once when
\* another descriptor holds the lock on the file, and then the descriptor is
\* closed, self.lock_fd keeps naming it, and LockError is raised
LockFileHandler_acquire(lock_fd, d, locked, open_ok) ==
    IF ~open_ok
    THEN [lock_fd |-> IF lock_fd.state = "none" THEN lock_fd
                      ELSE [state |-> "closed", inode |-> lock_fd.inode],
          disk |-> d, error |-> "OSError"]
    ELSE LET d1 == IF d.at = 0 THEN [at |-> d.made + 1, made |-> d.made + 1] ELSE d
         IN  IF d1.at \in locked
             THEN [lock_fd |-> [state |-> "closed", inode |-> d1.at], disk |-> d1,
                   error |-> "LockError"]
             ELSE [lock_fd |-> [state |-> "open", inode |-> d1.at], disk |-> d1,
                   error |-> "none"]

\* faulty variant: a handler whose acquire was refused removes the file as well
LockFileHandler_release_removes_always(lock_fd, d) ==
    CASE lock_fd.state = "none" -> [lock_fd |-> NoFd, disk |-> d, error |-> "none"]
      [] OTHER -> [lock_fd |-> NoFd, disk |-> [d EXCEPT !.at = 0], error |-> "none"]

\* faulty variant: the lock file is left on the path
LockFileHandler_release_keeps_file(lock_fd, d) ==
    CASE lock_fd.state = "none" -> [lock_fd |-> NoFd, disk |-> d, error |-> "none"]
      [] lock_fd.state = "closed" -> [lock_fd |-> NoFd, disk |-> d, error |-> "ValueError"]
      [] OTHER -> [lock_fd |-> NoFd, disk |-> d, error |-> "none"]

\* faulty variant: a descriptor that acquire closed is taken for no descriptor
LockFileHandler_release_skips_closed(lock_fd, d) ==
    CASE lock_fd.state = "none" -> [lock_fd |-> NoFd, disk |-> d, error |-> "none"]
      [] lock_fd.state = "closed" -> [lock_fd |-> NoFd, disk |-> d, error |-> "none"]
      [] OTHER -> [lock_fd |-> NoFd, disk |-> [d EXCEPT !.at = 0], error |-> "none"]

\* LockFileHandler.release: nothing when self.lock_fd is None; else unlock,
\* close, remove whatever file is at the path, and self.lock_fd = None in the
\* finally. portalocker.unlock on a closed file raises ValueError (fileno() of
\* a closed file), which "except OSError" lets through.
LockFileHandler_release(lock_fd, d) ==
    CASE lock_fd.state = "none" -> [lock_fd |-> NoFd, disk |-> d, error |-> "none"]
      [] lock_fd.state = "closed" -> [lock_fd |-> NoFd, disk |-> d, error |-> "ValueError"]
      [] OTHER -> [lock_fd |-> NoFd, disk |-> [d EXCEPT !.at = 0], error |-> "none"]

\* the handler's record after a call of acquire that answered r
AfterAcquire(p, d, r) ==
    [p EXCEPT !.lock_fd = r.lock_fd, !.call = "acquire", !.error = r.error,
              !.created = IF d.at = 0 /\ r.disk.at # 0 THEN r.disk.at ELSE @,
              !.acquired = @ \/ r.error = "none",
              !.failed = @ \/ r.error = "LockError"]

\* the handler's record after a call of release that answered r
AfterRelease(p, r) ==
    [p EXCEPT !.lock_fd = r.lock_fd, !.call = "release", !.error = r.error,
              !.releases = IF p.pc = "handler" THEN @ ELSE @ + 1]

LockIdle ==
    /\ procs = [i \in Instances |-> NoProc("off")]
    /\ disk = NoDisk

(***************************************************************************)
(* TelegramClientHandler (helper/telegram_client.py)                       *)
(***************************************************************************)
MaxClientCalls == 5  \* calls made on one TelegramClientHandler

\* self.client = None; clients are numbered as they are constructed
NoClient == 0

\* made: TelegramClient objects constructed; started: sessions start() opened;
\* closed: calls of the client's disconnect(); kept: calls of get_client
\* answered with the client already held; fault: what the client raised in the
\* last call; error: what the last call raised; returned: what the last
\* get_client returned
NewHandler ==
    [client |-> NoClient, made |-> 0, started |-> 0, closed |-> 0, kept |-> 0,
     calls |-> 0, call |-> "none", fault |-> "none", error |-> "none",
     returned |-> NoClient]

\* the outcomes of get_client on a handler without client
ConfigKeyMissing(h) ==
    [h EXCEPT !.call = "get_client", !.fault = "none", !.error = "ValueError",
              !.returned = NoClient]

Started(h) ==
    [h EXCEPT !.call = "get_client", !.fault = "none", !.error = "none",
              !.client = h.made + 1, !.made = @ + 1, !.started = @ + 1,
              !.returned = h.made + 1]

StartRaised(h) ==
    [h EXCEPT !.call = "get_client", !.fault = "start", !.error = "start",
              !.client = NoClient, !.made = @ + 1, !.returned = NoClient]

\* faulty variant: a client is constructed and started on every call
TelegramClientHandler_get_client_always_starts(h, config_ok, start_ok) ==
    IF ~config_ok THEN ConfigKeyMissing(h)
    ELSE IF start_ok THEN Started(h)
    ELSE StartRaised(h)

\* get_client: the client it holds, if any; ValueError for a missing config
\* key; else a new TelegramClient is constructed and started, and when that
\* raises, self.client = None and the exception is raised again
TelegramClientHandler_get_client(h, config_ok, start_ok) ==
    IF h.client # NoClient
    THEN [h EXCEPT !.call = "get_client", !.fault = "none", !.error = "none",
                   !.kept = @ + 1, !.returned = h.client]
    ELSE IF ~config_ok THEN ConfigKeyMissing(h)
    ELSE IF start_ok THEN Started(h)
    ELSE StartRaised(h)

\* disconnect: nothing without a client; else the client's disconnect() is
\* called, its exception raised again, and self.client = None in the finally
TelegramClientHandler_disconnect(h, disconnect_ok) ==
    IF h.client = NoClient
    THEN [h EXCEPT !.call = "disconnect", !.fault = "none", !.error = "none"]
    ELSE [h EXCEPT !.call = "disconnect", !.client = NoClient, !.closed = @ + 1,
                   !.fault = IF disconnect_ok THEN "none" ELSE "disconnect",
                   !.error = IF disconnect_ok THEN "none" ELSE "disconnect"]

(***************************************************************************)
(* MessageStorageHandler.store_messages (helper/message_storage.py)        *)
(***************************************************************************)
MaxStores == 2       \* calls of store_messages

\* the ids of the records handed to store_messages
StoredIds == {1, 2}

\* "media": None
NoMedia == <<>>

\* the batches store_messages is called with: records in ascending id order,
\* some of them carrying an attachment
StoredBatches ==
    { [k \in 1..Cardinality(ids) |->
          LET id == CHOOSE i \in ids : Cardinality({ j \in ids : j < i }) = k - 1
          IN  [id |-> id, media |-> id \in with_media]] :
        ids \in SUBSET StoredIds, with_media \in SUBSET StoredIds } 

\* where a call of store_messages may fail, apart from the downloads
StoreFaults == {"none", "makedirs", "file", "stats", "transaction"}

\* the row of the channel in the table channels (0 stands for NULL)
StoredChannelRow ==
    [earliest_raw_message_ID |-> 0, latest_raw_message_ID |-> 0, FetchStatus |-> 0]

NoStore ==
    [channel_id |-> 0, messages |-> <<>>, failed |-> {}, fault |-> "none",
     error |-> "none", path |-> <<>>]

\* files: the batch files; stats: the batch stats files; media: the downloaded
\* attachments; rows: channel_fetch_batches; channels: the table channels
NewStorage(channel_id) ==
    [files |-> {}, stats |-> {}, media |-> {}, rows |-> {},
     channels |-> [c \in Channels |-> StoredChannelRow],
     channel_id |-> channel_id, calls |-> 0, last |-> NoStore]

\* msg_data of one record: "media" is the attachment's descriptor after a
\* download that succeeded, None without attachment or when download_media raised
msg_data(channel_id, msg, timestamp, failed) ==
    [channel_id |-> channel_id, message_id |-> msg.id,
     media |-> IF msg.media /\ msg.id \notin failed
               THEN <<channel_id, msg.id, timestamp>> ELSE NoMedia]

\* the UPDATE of the table channels: earliest and latest when
\* earliest_raw_message_ID is NULL, latest only otherwise
UpdateChannels(row, messages) ==
    IF row.earliest_raw_message_ID = 0
    THEN [row EXCEPT !.earliest_raw_message_ID = messages[1].id,
                     !.latest_raw_message_ID = Last(messages).id,
                     !.FetchStatus = FetchStatusInProgress]
    ELSE [row EXCEPT !.latest_raw_message_ID = Last(messages).id]

\* the batch file, the stats file and the row of one batch
BatchFile(path, temp_data) == [path |-> path, records |-> temp_data]

BatchStats(path, channel_id, messages) ==
    [path |-> path, channel_id |-> channel_id, first_message_id |-> messages[1].id,
     last_message_id |-> Last(messages).id, message_count |-> Len(messages)]

BatchRow(path, channel_id, messages) ==
    [channel_id |-> channel_id, message_file_path |-> path,
     first_message_id |-> messages[1].id, last_message_id |-> Last(messages).id,
     message_count |-> Len(messages)]

\* faulty variant: an exception of download_media leaves store_messages
MessageStorageHandler_store_messages_download_raises(s, messages, failed, fault) ==
    LET c == s.channel_id
        timestamp == s.calls + 1
        path == <<c, timestamp>>
        temp_data == [k \in 1..Len(messages) |-> msg_data(c, messages[k], timestamp, failed)]
        Before(error) ==
            [s EXCEPT !.calls = timestamp,
                      !.last = [channel_id |-> c, messages |-> messages, failed |-> failed,
                                fault |-> fault, error |-> error, path |-> path]]
        fetched == [Before("none") EXCEPT
                      !.media = @ \cup { temp_data[k].media :
                                           k \in { j \in 1..Len(messages) :
                                                     temp_data[j].media # NoMedia } }]
        written == [fetched EXCEPT !.files = @ \cup {BatchFile(path, temp_data)}]
    IN  IF fault = "makedirs" THEN Before("OSError")
        ELSE IF failed # {} THEN Before("Exception")
        ELSE IF fault = "file" THEN [fetched EXCEPT !.last.error = "OSError"]
        ELSE IF messages = <<>> THEN written
        ELSE IF fault = "stats" THEN [written EXCEPT !.last.error = "OSError"]
        ELSE LET counted == [written EXCEPT
                               !.stats = @ \cup {BatchStats(path, c, messages)}]
             IN  IF fault = "transaction" THEN [counted EXCEPT !.last.error = "Exception"]
                 ELSE [counted EXCEPT
                         !.rows = @ \cup {BatchRow(path, c, messages)},
                         !.channels[c] = UpdateChannels(@, messages)]

\* store_messages(messages, channel_id, client): the directories; for every
\* record its msg_data, with the download of its attachment, whose exception is
\* logged; the batch file; and "if messages:" the stats file and the
\* transaction that inserts the row and updates the table channels. OSError of
\* the file writes and the exception that rolled the transaction back are
\* raised again. The timestamp of a call names its files.
MessageStorageHandler_store_messages(s, messages, failed, fault) ==
    LET c == s.channel_id
        timestamp == s.calls + 1
        path == <<c, timestamp>>
        temp_data == [k \in 1..Len(messages) |-> msg_data(c, messages[k], timestamp, failed)]
        Before(error) ==
            [s EXCEPT !.calls = timestamp,
                      !.last = [channel_id |-> c, messages |-> messages, failed |-> failed,
                                fault |-> fault, error |-> error, path |-> path]]
        fetched == [Before("none") EXCEPT
                      !.media = @ \cup { temp_data[k].media :
                                           k \in { j \in 1..Len(messages) :
                                                     temp_data[j].media # NoMedia } }]
        written == [fetched EXCEPT !.files = @ \cup {BatchFile(path, temp_data)}]
    IN  IF fault = "makedirs" THEN Before("OSError")
        ELSE IF fault = "file" THEN [fetched EXCEPT !.last.error = "OSError"]
        ELSE IF messages = <<>> THEN written
        ELSE IF fault = "stats" THEN [written EXCEPT !.last.error = "OSError"]
        ELSE LET counted == [written EXCEPT
                               !.stats = @ \cup {BatchStats(path, c, messages)}]
             IN  IF fault = "transaction" THEN [counted EXCEPT !.last.error = "Exception"]
                 ELSE [counted EXCEPT
                         !.rows = @ \cup {BatchRow(path, c, messages)},
                         !.channels[c] = UpdateChannels(@, messages)]

(***************************************************************************)
(* channelTracker (trading_dev/scripts/channelTracker.py): one sync cycle  *)
(* lists the channels of the source and brings the table channels in line  *)
(***************************************************************************)
MaxTracked == 2      \* channel ids 1..MaxTracked the source and the table may hold
MaxSyncs == 2        \* sync cycles of the tracker

TrackedIds == 1..MaxTracked
TrackedNames == {"a", "b"}

\* fetch_telegram_channels returned None: lines 101-103
NoListing == [obtained |-> FALSE, names |-> <<>>]

\* df_tele: (dialog.id, dialog.name) of the dialogs that are channels
Listings ==
    { [obtained |-> TRUE, names |-> n] :
        n \in UNION { [ids -> TrackedNames] : ids \in SUBSET TrackedIds } }

\* the rows the table channels may hold when a cycle starts
ChannelsTables ==
    UNION { [ids -> [Name : TrackedNames, Operating : {0, 1}, Disappeared : {0, 1}]] :
              ids \in SUBSET TrackedIds }

\* what can go wrong at the store: nothing, the SELECT of fetch_db_channels,
\* or a statement of the update
TrackerFaults == {"none", "read", "write"}

\* new_channels: lines 129-135
new_channels(df_db, df_tele) ==
    [id \in DOMAIN df_tele.names \ DOMAIN df_db |->
        [Name |-> df_tele.names[id], Operating |-> 0, Disappeared |-> 0]]

\* for channel_id in df_db.index: lines 137-153
UpdatedRow(df_db, df_tele, channel_id) ==
    LET row == df_db[channel_id]
    IN  IF channel_id \in DOMAIN df_tele.names
        THEN LET tele_name == df_tele.names[channel_id]
                 update_needed == tele_name # row.Name \/ row.Disappeared # 0
             IN  IF update_needed
                 THEN [row EXCEPT !.Name = tele_name, !.Disappeared = 0]
                 ELSE row
        ELSE IF row.Disappeared # 1 THEN [row EXCEPT !.Disappeared = 1] ELSE row

\* update_channels_table(df_tele) on the table df_db: nothing is done when
\* the table could not be read, the listing is None or the listing is empty
\* (line 122). When a statement fails the updates are not committed; the
\* insert of the new channels, done through to_sql before them, is kept or
\* not (inserted) depending on whether it ran in a transaction of its own.
update_channels_table(df_db, df_tele, fault, inserted) ==
    IF fault = "read" \/ ~df_tele.obtained \/ DOMAIN df_tele.names = {}
    THEN df_db
    ELSE LET new == new_channels(df_db, df_tele)
         IN  IF fault = "write"
             THEN IF inserted
                  THEN [id \in DOMAIN df_db \cup DOMAIN new |->
                           IF id \in DOMAIN new THEN new[id] ELSE df_db[id]]
                  ELSE df_db
             ELSE [id \in DOMAIN df_db \cup DOMAIN new |->
                      IF id \in DOMAIN new THEN new[id]
                      ELSE UpdatedRow(df_db, df_tele, id)]

NoTracker == [channels |-> <<>>, cycles |-> 0, df_tele |-> NoListing, fault |-> "none"]

HelpersIdle ==
    /\ tg = NewHandler
    /\ storage = NewStorage(0)
    /\ tracker = NoTracker

Init == FetchIdle /\ MainInit /\ LockIdle /\ HelpersIdle

Next ==
    \/ Acquire
    \/ StopAtTop
    \/ IdleCycle
    \/ StartCycle
    \/ SkipChannel
    \/ ProcessChannel
    \/ StopAfterChannel
    \/ NextChannel
    \/ EndCycle
    \/ Finally
    \/ DeleteLock
    \/ NewMessage

Spec == Init /\ [][Next]_vars

\* SpecResume: main started on what earlier processes committed
InitResume == FetchIdle /\ MainResume /\ LockIdle /\ HelpersIdle

SpecResume == InitResume /\ [][Next]_vars

\* SpecRestart: main started again on channels an earlier process left complete
InitRestart == FetchIdle /\ MainRestart /\ LockIdle /\ HelpersIdle

SpecRestart == InitRestart /\ [][Next]_vars

InitFetch == FetchInit /\ MainIdle /\ LockIdle /\ HelpersIdle

NextFetch ==
    \/ FetchRequest
    \/ FetchFlood
    \/ FetchUnreadable
    \/ FetchError

SpecFetch == InitFetch /\ [][NextFetch]_vars

(***************************************************************************)
(* SpecHandlers: handlers of one lock path, acquire and release called in  *)
(* any order                                                               *)
(***************************************************************************)
HandlersFresh ==
    /\ procs = [i \in Instances |-> NoProc("handler")]
    /\ disk = NoDisk

InitHandlers == FetchIdle /\ MainIdle /\ HandlersFresh /\ HelpersIdle

\* handler h calls acquire()
HandlerAcquire(h) ==
    /\ procs[h].pc = "handler"
    /\ procs[h].lock_fd.state # "open"
    /\ disk.at # 0 \/ disk.made < MaxLockFiles
    /\ LET r == LockFileHandler_acquire(procs[h].lock_fd, disk, LockedByOthers(procs, h), TRUE)
       IN  /\ procs' = [procs EXCEPT ![h] = AfterAcquire(@, disk, r)]
           /\ disk' = r.disk
    /\ UNCHANGED <<fetchVars, mainVars, helperVars>>

\* handler h calls release()
HandlerRelease(h) ==
    /\ procs[h].pc = "handler"
    /\ LET r == LockFileHandler_release(procs[h].lock_fd, disk)
       IN  /\ procs' = [procs EXCEPT ![h] = AfterRelease(@, r)]
           /\ disk' = r.disk
    /\ UNCHANGED <<fetchVars, mainVars, helperVars>>

NextHandlers ==
    \/ \E h \in Instances : HandlerAcquire(h)
    \/ \E h \in Instances : HandlerRelease(h)

SpecHandlers == InitHandlers /\ [][NextHandlers]_vars

(***************************************************************************)
(* SpecInstances: processes of main on one lock path, and the operator     *)
(* who removes the lock file                                               *)
(***************************************************************************)
InstancesFresh ==
    /\ procs = [i \in Instances |-> NoProc("init")]
    /\ disk = NoDisk

InitInstances == FetchIdle /\ MainIdle /\ InstancesFresh /\ HelpersIdle

\* faulty variant: the failed initialization falls through to a clean exit
InitFailExitsClean(i) ==
    /\ procs[i].pc = "init"
    /\ procs' = [procs EXCEPT ![i].pc = "exited", ![i].exit_code = 0,
                              ![i].stop = "init_failed"]
    /\ UNCHANGED <<disk, fetchVars, mainVars, helperVars>>

\* initialize_dependencies raised: sys.exit(1)
InitFail(i) ==
    /\ procs[i].pc = "init"
    /\ procs' = [procs EXCEPT ![i].pc = "exited", ![i].exit_code = 1,
                              ![i].stop = "init_failed"]
    /\ UNCHANGED <<disk, fetchVars, mainVars, helperVars>>

\* initialize_dependencies returned; the handler is constructed
InitOk(i) ==
    /\ procs[i].pc = "init"
    /\ procs' = [procs EXCEPT ![i].pc = "acquire"]
    /\ UNCHANGED <<disk, fetchVars, mainVars, helperVars>>

\* lock_handler.acquire() in the try of main: on an exception the except
\* clause logs it and the finally runs
MainAcquire(i) ==
    /\ procs[i].pc = "acquire"
    /\ \E open_ok \in BOOLEAN :
          LET r == LockFileHandler_acquire(procs[i].lock_fd, disk,
                                           LockedByOthers(procs, i), open_ok)
              p == AfterAcquire(procs[i], disk, r)
          IN  /\ procs' = [procs EXCEPT ![i] =
                             IF r.error = "none" THEN [p EXCEPT !.pc = "top"]
                             ELSE [p EXCEPT !.pc = "finally", !.stop = "acquire_failed"]]
              /\ disk' = r.disk
    /\ UNCHANGED <<fetchVars, mainVars, helperVars>>

\* top of the while loop: os.path.exists(lock_file_path) is false, break
LoopStopAtTop(i) ==
    /\ procs[i].pc = "top"
    /\ disk.at = 0
    /\ procs' = [procs EXCEPT ![i].pc = "finally", ![i].stop = "lock_removed"]
    /\ UNCHANGED <<disk, fetchVars, mainVars, helperVars>>

\* a pass that reaches a channel to fetch
LoopFetch(i) ==
    /\ procs[i].pc = "top"
    /\ disk.at # 0
    /\ procs' = [procs EXCEPT ![i].pc = "channel", ![i].ran = TRUE]
    /\ UNCHANGED <<disk, fetchVars, mainVars, helperVars>>

\* a pass in which every channel is skipped for max_batches: break
LoopAllCapped(i) ==
    /\ procs[i].pc = "top"
    /\ disk.at # 0
    /\ procs[i].ran
    /\ procs' = [procs EXCEPT ![i].pc = "finally", ![i].stop = "all_capped"]
    /\ UNCHANGED <<disk, fetchVars, mainVars, helperVars>>

\* the channel's fetch and commit are done
LoopChannelDone(i) ==
    /\ procs[i].pc = "channel"
    /\ procs' = [procs EXCEPT ![i].pc = "lock_check"]
    /\ UNCHANGED <<disk, fetchVars, mainVars, helperVars>>

\* the check after a channel: the lock file is gone, return
LoopStopAfterChannel(i) ==
    /\ procs[i].pc = "lock_check"
    /\ disk.at = 0
    /\ procs' = [procs EXCEPT ![i].pc = "finally", ![i].stop = "lock_removed"]
    /\ UNCHANGED <<disk, fetchVars, mainVars, helperVars>>

\* the check after a channel: the lock file is there; next channel, or the
\* end of the pass
LoopNext(i) ==
    /\ procs[i].pc = "lock_check"
    /\ disk.at # 0
    /\ \E to \in {"channel", "top"} : procs' = [procs EXCEPT ![i].pc = to]
    /\ UNCHANGED <<disk, fetchVars, mainVars, helperVars>>

\* an exception leaves the loop: except Exception logs it, the finally runs
LoopError(i) ==
    /\ procs[i].pc \in {"top", "channel", "lock_check"}
    /\ procs' = [procs EXCEPT ![i].pc = "finally", ![i].stop = "error"]
    /\ UNCHANGED <<disk, fetchVars, mainVars, helperVars>>

\* finally: lock_handler.release(); client.disconnect(); sys.exit(0). An
\* exception out of release ends the process with the traceback, code 1.
MainFinally(i) ==
    /\ procs[i].pc = "finally"
    /\ LET r == LockFileHandler_release(procs[i].lock_fd, disk)
           p == AfterRelease(procs[i], r)
       IN  /\ procs' = [procs EXCEPT ![i] =
                          [p EXCEPT !.pc = "exited",
                                    !.exit_code = IF r.error = "none" THEN 0 ELSE 1]]
           /\ disk' = r.disk
    /\ UNCHANGED <<fetchVars, mainVars, helperVars>>

\* the operator removes the lock file to stop the service
RemoveLockFile ==
    /\ disk.at # 0
    /\ disk' = [disk EXCEPT !.at = 0]
    /\ UNCHANGED <<procs, fetchVars, mainVars, helperVars>>

NextInstances ==
    \/ \E i \in Instances : InitFail(i)
    \/ \E i \in Instances : InitOk(i)
    \/ \E i \in Instances : MainAcquire(i)
    \/ \E i \in Instances : LoopStopAtTop(i)
    \/ \E i \in Instances : LoopFetch(i)
    \/ \E i \in Instances : LoopAllCapped(i)
    \/ \E i \in Instances : LoopChannelDone(i)
    \/ \E i \in Instances : LoopStopAfterChannel(i)
    \/ \E i \in Instances : LoopNext(i)
    \/ \E i \in Instances : LoopError(i)
    \/ \E i \in Instances : MainFinally(i)
    \/ RemoveLockFile

SpecInstances == InitInstances /\ [][NextInstances]_vars


(***************************************************************************)
(* SpecClient: get_client and disconnect called on one handler in any      *)
(* order                                                                   *)
(***************************************************************************)
InitClient == FetchIdle /\ MainIdle /\ LockIdle /\ HelpersIdle

\* await handler.get_client()
GetClient ==
    /\ tg.calls < MaxClientCalls
    /\ \E config_ok \in BOOLEAN, start_ok \in BOOLEAN :
          /\ config_ok \/ start_ok
          /\ tg' = [TelegramClientHandler_get_client(tg, config_ok, start_ok)
                      EXCEPT !.calls = @ + 1]
    /\ UNCHANGED <<storage, tracker, fetchVars, mainVars, lockVars>>

\* await handler.disconnect()
Disconnect ==
    /\ tg.calls < MaxClientCalls
    /\ \E disconnect_ok \in BOOLEAN :
          tg' = [TelegramClientHandler_disconnect(tg, disconnect_ok) EXCEPT !.calls = @ + 1]
    /\ UNCHANGED <<storage, tracker, fetchVars, mainVars, lockVars>>

NextClient ==
    \/ GetClient
    \/ Disconnect

SpecClient == InitClient /\ [][NextClient]_vars

(***************************************************************************)
(* SpecStore: store_messages called on the batches of one channel          *)
(***************************************************************************)
StorageFresh ==
    /\ tg = NewHandler
    /\ tracker = NoTracker
    /\ \E c \in Channels : storage = NewStorage(c)

InitStore == FetchIdle /\ MainIdle /\ LockIdle /\ StorageFresh

\* the records of the batch that carry an attachment
WithMedia(messages) == { messages[k].id : k \in { j \in 1..Len(messages) : messages[j].media } }

\* await storage.store_messages(messages, channel_id, client)
StoreMessages ==
    /\ storage.calls < MaxStores
    /\ \E messages \in StoredBatches, fault \in StoreFaults :
          \E failed \in SUBSET WithMedia(messages) :
              \* the stats file and the transaction exist for records only
              /\ messages = <<>> => fault \notin {"stats", "transaction"}
              /\ storage' = MessageStorageHandler_store_messages(storage, messages, failed,
                                                                  fault)
    /\ UNCHANGED <<tg, tracker, fetchVars, mainVars, lockVars>>

NextStore == StoreMessages

SpecStore == InitStore /\ [][NextStore]_vars


(***************************************************************************)
(* SpecTracker: sync cycles of channelTracker on a table channels          *)
(***************************************************************************)
TrackerFresh ==
    /\ tg = NewHandler
    /\ storage = NewStorage(0)
    /\ \E t \in ChannelsTables : tracker = [NoTracker EXCEPT !.channels = t]

InitTracker == FetchIdle /\ MainIdle /\ LockIdle /\ TrackerFresh

\* one pass of the while loop: df_tele = fetch_telegram_channels();
\* update_channels_table(df_tele): lines 160-165
SyncCycle ==
    /\ tracker.cycles < MaxSyncs
    /\ \E df_tele \in Listings \cup {NoListing}, fault \in TrackerFaults,
          inserted \in BOOLEAN :
          /\ fault = "write" \/ inserted
          /\ tracker' = [channels |-> update_channels_table(tracker.channels, df_tele,
                                                            fault, inserted),
                         cycles |-> tracker.cycles + 1,
                         df_tele |-> df_tele,
                         fault |-> fault]
    /\ UNCHANGED <<tg, storage, fetchVars, mainVars, lockVars>>

NextTracker == SyncCycle

SpecTracker == InitTracker /\ [][NextTracker]_vars

(***************************************************************************)
(* Properties                                                              *)
(***************************************************************************)
\* the channel step main has just taken is a non-empty batch / an empty fetch
JustCommitted == pc = "lock_check" /\ last.kind = "batch"
JustEmpty == pc = "lock_check" /\ last.kind = "empty"

\* this step of main is the processing of a non-empty batch
CommitStep == pc = "channel" /\ pc' = "lock_check" /\ last'.kind = "batch"

Cursor(c) == channel_states[c].offset_id

\* C1: a channel's cursor is its seeded start value or the last id of a batch
\* whose file and whose metadata row were both written; never the id of a
\* record that was fetched but not durably committed.
C1_CursorOnlyDurable ==
    \A c \in DOMAIN channel_states :
        \/ Cursor(c) = track.seed[c]
        \/ \E r \in batches :
              /\ r.channel_id = c
              /\ r.last_message_id = Cursor(c)
              /\ \E f \in files : f.path = r.message_file_path

\* C2: when the metadata insert fails after the batch file was written, the
\* cursor stays where it was, so that the next cycle fetches the same records.
C2_RefetchAfterMetadataFailure ==
    (JustCommitted /\ last.file_written /\ ~last.meta_written)
        => Cursor(last.channel_id) = last.offset_before

\* C3: for a commit of a non-empty batch the metadata row and the roster
\* update are written together or not at all.
C3_MetadataAndRosterTogether ==
    JustCommitted => (last.meta_written <=> last.status_written)

\* C4: when the batch file cannot be written, the commit writes no metadata
\* row, changes no roster row and leaves the cursor unchanged.
C4_FileFailureWritesNothing ==
    [][(CommitStep /\ ~last'.file_written)
          => /\ batches' = batches
             /\ roster' = roster
             /\ channel_states'[last'.channel_id].offset_id = last'.offset_before]_vars

\* C5: within one process a channel's cursor never decreases.
C5_CursorNeverDecreases ==
    [][\A c \in DOMAIN channel_states :
          /\ c \in DOMAIN channel_states'
          /\ channel_states'[c].offset_id >= channel_states[c].offset_id]_vars

\* a cursor that advanced twice
C5_Witness ==
    \E c \in DOMAIN channel_states :
        channel_states[c].offset_id = 2 /\ channel_states[c].batch_count = 2

\* C6: against a source that signals rate-limited on every call, the fetch
\* sleeps the signaled duration once per call, stops at the fifth call and
\* returns what it collected, which is nothing.
C6_FloodBudget ==
    (hist.calls > 0 /\ hist.floods = hist.calls)
        => /\ hist.calls <= max_retries
           /\ hist.slept = [k \in 1..hist.calls |-> src.wait]
           /\ fb.running <=> hist.calls < max_retries
           /\ fb.valid_messages = <<>>

\* the fetch returned after five rate-limited calls
C6_Witness ==
    ~fb.running /\ hist.calls = max_retries /\ hist.floods = max_retries

\* C7: against max_skips + 10 unreadable records followed by one readable
\* record, the fetch returns exactly that record, its offset past the run.
C7_SkipAheadFindsTheRecord ==
    (src \in CorruptRunSources /\ ~fb.running)
        => /\ fb.valid_messages = <<CorruptRun + 1>>
           /\ fb.current_offset >= CorruptRun + 1

\* C8 as stated: the fifth consecutive empty fetch of an in_progress channel
\* leaves its roster row complete, each of the first four leaves it in_progress.
C8_CompleteAtFifthEmpty ==
    (JustEmpty /\ last.status_before = FetchStatusInProgress)
        => LET c == last.channel_id
           IN  roster[c].FetchStatus =
                   IF track.empties[c] >= max_attempts THEN FetchStatusComplete
                   ELSE FetchStatusInProgress

\* C8 amended: ... the fifth leaves it complete when its status update is
\* written, and in_progress as before when that write fails.
C8_CompleteAtFifthEmptyWritten ==
    (JustEmpty /\ last.status_before = FetchStatusInProgress)
        => LET c == last.channel_id
           IN  roster[c].FetchStatus =
                   IF track.empties[c] >= max_attempts /\ last.status_written
                   THEN FetchStatusComplete
                   ELSE FetchStatusInProgress

\* the status update of a fifth consecutive empty fetch was written
C8_Witness ==
    /\ JustEmpty
    /\ last.status_before = FetchStatusInProgress
    /\ last.status_written
    /\ track.empties[last.channel_id] = max_attempts
    /\ roster[last.channel_id].FetchStatus = FetchStatusComplete

\* a roster row turns complete only on a run of max_attempts empty fetches
CompleteOnlyAfterEmpties ==
    \A c \in Channels :
        (roster[c].FetchStatus # FetchStatusComplete
            /\ roster'[c].FetchStatus = FetchStatusComplete)
        => track.empties'[c] >= max_attempts

Capped(c) ==
    /\ c \in DOMAIN channel_states
    /\ ReachedMaxBatches(env.max_batches, channel_states[c].batch_count)

\* every channel of the pass is complete in the roster or at its max_batches
AllCompleteOrCapped ==
    \A k \in 1..Len(cyc.channels) :
        LET c == cyc.channels[k].ID
        IN  roster[c].FetchStatus = FetchStatusComplete \/ Capped(c)

\* every channel of the pass was processed by an earlier pass
AllSeenBefore ==
    \A k \in 1..Len(cyc.channels) : cyc.channels[k].ID \in DOMAIN channel_states

\* C10: once a pass has ended with every channel complete or capped, the
\* scheduler has stopped: no later pass starts a fetch.
C10_NoFetchAfterAllDone ==
    [][(pc = "channel" /\ pc' = "lock_check" /\ cyc.active_channels = <<>>
            /\ AllSeenBefore)
          => ~AllCompleteOrCapped]_vars

\* main is past its while loop
LoopWasLeft == pc = "finally" \/ pc = "exited"

\* C11: a lock file deleted while a channel is processed lets that channel
\* finish, after which no fetch starts and the loop is left for good; whenever
\* the file is deleted, at most one channel's fetch begins after the deletion.
C11_StopsAfterCurrentChannel ==
    /\ [](track.late <= 1)
    /\ [][(pc = "lock_check" /\ ~lock.exists)
             => /\ pc' \in {"lock_check", "finally"}
                /\ channel_states' = channel_states
                /\ track'.late = track.late]_vars
    /\ [][LoopWasLeft => LoopWasLeft']_vars

\* the loop was left after a channel whose fetch began with the lock file gone
C11_Witness ==
    /\ pc = "finally"
    /\ track.late = 1
    /\ last.kind \in {"batch", "empty"}
    /\ last.channel_id \in DOMAIN channel_states

\* C12: a process that acquired the lock invokes release exactly once,
\* on its way out and not before, whichever way it leaves the loop; after it
\* the process holds no descriptor and no lock file it created is on the path.
C12_ReleasedOnEveryExit ==
    \A i \in Instances :
        procs[i].acquired
            => /\ procs[i].pc # "exited" => procs[i].releases = 0
               /\ procs[i].pc = "exited"
                    => /\ procs[i].stop \in {"lock_removed", "all_capped", "error"}
                       /\ procs[i].releases = 1
                       /\ procs[i].lock_fd = NoFd
                       /\ procs[i].created = 0 \/ disk.at # procs[i].created

\* one process left on an error in the loop, another on the stop switch
C12_Witness ==
    \E i, j \in Instances :
        /\ procs[i].pc = "exited" /\ procs[i].acquired /\ procs[i].stop = "error"
        /\ procs[i].created # 0
        /\ procs[j].pc = "exited" /\ procs[j].acquired /\ procs[j].stop = "lock_removed"
        /\ procs[j].created # 0

\* C13: release called right after a release, or on a handler that never
\* acquired the lock, raises nothing and leaves the handler without a
\* descriptor and the lock path without a lock file (a file that another
\* handler holds locked is not counted against the call).
C13_ReleaseTwiceOrUnacquired ==
    [][\A h \in Instances :
          (HandlerRelease(h) /\ (procs[h].call = "release" \/ ~procs[h].acquired))
              => /\ procs'[h].error = "none"
                 /\ procs'[h].lock_fd = NoFd
                 /\ disk'.at = 0 \/ disk'.at \in LockedByOthers(procs', h)]_vars

\* C14: while another handler holds the lock on the path, acquire fails at
\* once with LockError and leaves the caller without the lock; when no other
\* handler holds it (none took it, or the holder released), acquire succeeds
\* and the caller holds the lock on the file at the path.
C14_SecondAcquireRefused ==
    [][\A h \in Instances :
          HandlerAcquire(h)
              => IF LockedByOthers(procs, h) # {}
                 THEN /\ procs'[h].error = "LockError"
                      /\ procs'[h].lock_fd.state # "open"
                      /\ LockedByOthers(procs', h) = LockedByOthers(procs, h)
                 ELSE /\ procs'[h].error = "none"
                      /\ procs'[h].lock_fd = [state |-> "open", inode |-> disk'.at]
                      /\ disk'.at # 0]_vars

\* a handler that was refused holds the lock after the holder released
C14_Witness ==
    \E h \in Instances :
        /\ procs[h].failed
        /\ procs[h].lock_fd.state = "open"
        /\ LockedByOthers(procs, h) = {}
        /\ \E o \in Instances \ {h} : procs[o].acquired /\ procs[o].call = "release"

\* C15: whatever the order of process starts, removals of the lock file and
\* process stops, at most one process is fetching or committing at a time.
C15_OneProcessInTheLoop ==
    Cardinality({ i \in Instances : procs[i].pc = "channel" }) <= 1

\* this step of main is the top of a pass that goes on to its channels
PassStarts == pc = "top" /\ pc' = "channel"

\* the three settings after the top of a pass: the reloaded ones, all three,
\* after a reload that succeeded; the previous ones otherwise
SettingsAfterTop ==
    IF cyc'.reload = "ok" THEN Settings(env') = cyc'.config
    ELSE Settings(env') = Settings(env)

C17_InitFailureExitsBeforeLock ==
    \A i \in Instances :
        procs[i].stop = "init_failed"
            => /\ procs[i].pc = "exited"
               /\ procs[i].exit_code \notin {-1, 0}
               /\ procs[i].call = "none"
               /\ procs[i].lock_fd = NoFd
               /\ ~procs[i].acquired
               /\ procs[i].created = 0
               /\ ~procs[i].ran

\* one process failed to initialize while another runs the loop
C17_Witness ==
    \E i, j \in Instances :
        /\ procs[i].stop = "init_failed"
        /\ procs[j].pc = "channel"
        /\ disk.at # 0

\* C18: a process refused the lock because another holds it runs no fetch or
\* commit and exits with a non-zero code (release, called by the finally on
\* the descriptor acquire closed, raises, and the exception ends the
\* process); a process stopped by the removal of the lock file, or because
\* all its channels are capped, exits with code 0.
C18_ExitCodes ==
    \A i \in Instances :
        /\ procs[i].failed => ~procs[i].ran
        /\ procs[i].pc = "exited"
             => /\ procs[i].failed => procs[i].exit_code \notin {-1, 0}
                /\ procs[i].stop \in {"lock_removed", "all_capped"}
                     => procs[i].exit_code = 0

\* one process was refused the lock and has exited, the holder stopped cleanly
C18_Witness ==
    \E i, j \in Instances :
        /\ procs[i].pc = "exited" /\ procs[i].failed /\ procs[i].stop = "acquire_failed"
        /\ procs[j].pc = "exited" /\ procs[j].stop \in {"lock_removed", "all_capped"}
        /\ procs[j].ran

\* this step takes main out of its while loop
LoopIsLeft == ~LoopWasLeft /\ LoopWasLeft'

\* the loop may be left: the lock file is gone, or the pass found every channel
\* at its max_batches
MayLeaveLoop ==
    \/ ~lock.exists
    \/ pc = "end_cycle" /\ cyc.active_channels = <<>>

\* after the work on a channel, main goes to the next channel of the pass or
\* to the end of the pass
GoesOnAfterChannel ==
    (pc = "lock_check" /\ lock.exists /\ pc' # pc)
        => /\ pc' = AfterChannel(cyc.idx)
           /\ cyc'.idx = cyc.idx + 1

\* the pass ends and another pass follows
GoesOnAfterPass ==
    (pc = "end_cycle" /\ cyc.active_channels # <<>> /\ pc' # pc) => pc' = "top"

\* C19: whatever failed while a channel was processed (the fetch, the file
\* write, a store write), the loop is left only for the stop switch or the
\* max_batches cap: the remaining channels of the pass are processed and the
\* next pass runs.
C19_FailuresDoNotStopTheLoop ==
    /\ [][LoopIsLeft => MayLeaveLoop]_vars
    /\ [][GoesOnAfterChannel]_vars
    /\ [][GoesOnAfterPass]_vars
    /\ []((pc = "lock_check" /\ lock.exists) => ENABLED NextChannel)

\* the file write of channel 1's batch failed in the first pass; the second
\* pass has fetched channel 1 again and has just processed channel 2
C19_Witness ==
    /\ pc = "lock_check"
    /\ env.cycles = 2
    /\ 1 \in DOMAIN channel_states
    /\ channel_states[1].batch_count = 1
    /\ \A f \in files : f.path # <<1, 1>>
    /\ track.empties[1] = 1
    /\ cyc.active_channels = <<1, 2>>
    /\ last.channel_id = 2

\* this step of main fetches for the channel last'.channel_id
FetchStepOfMain == pc = "channel" /\ pc' = "lock_check"

\* the channel main is about to fetch for is below the cap
FetchedBelowCap ==
    LET c == last'.channel_id
    IN  (env.max_batches > 0 /\ c \in DOMAIN channel_states)
            => channel_states[c].batch_count < env.max_batches

\* C20: with max_batches > 0 no fetch is made for a channel whose batch_count
\* has reached max_batches, and batch_count never exceeds max_batches; with
\* max_batches = 0 no channel is skipped for the cap.
C20_MaxBatchesCap ==
    /\ [][FetchStepOfMain => FetchedBelowCap]_vars
    /\ [](env.max_batches > 0
            => \A c \in DOMAIN channel_states :
                  channel_states[c].batch_count <= env.max_batches)
    /\ [](last.kind = "skipped" => env.max_batches > 0)

\* a channel that reached max_batches was skipped by a later pass
C20_Witness ==
    /\ last.kind = "skipped"
    /\ env.max_batches > 0
    /\ channel_states[last.channel_id].batch_count = env.max_batches
    /\ feed[last.channel_id] > channel_states[last.channel_id].offset_id

\* C22: the records a fetch has collected have strictly increasing ids, all
\* greater than the offset the fetch was started with, so none appears twice
\* (the source answers every request with the records after the requested
\* offset, oldest first).
C22_AscendingAfterCursor ==
    LET v == fb.valid_messages
    IN  /\ \A k \in 1..Len(v) : v[k] > src.offset_id
        /\ \A k \in 1..(Len(v) - 1) : v[k] < v[k + 1]

\* two requests, an unreadable record between the two records collected
C22_Witness ==
    /\ ~fb.running
    /\ src.ids = 1..MaxSmallId
    /\ src.unreadable = {2}
    /\ src.batch_size = 2
    /\ hist.injected = 0
    /\ hist.calls = 2
    /\ fb.valid_messages = <<1, 3>>

\* C25: skips never stands at max_skips or more when a client call is issued:
\* wherever the unreadable signal came from, a record in a page or the client
\* call itself, the offset was jumped and skips reset before the next call.
C25_NoCallAtMaxSkips ==
    fb.running => fb.skips < max_skips

\* the records still missing from the batch
StillMissing == src.batch_size - Len(fb.valid_messages)

\* C26: the limit of the request a running fetch issues next is
\* min(missing, 100) while 2 * skips < max_skips and min(missing, 200) from
\* then on, where missing counts the records the batch still lacks; it is at
\* least 1 and at most missing.
C26_RequestLimit ==
    fb.running
        => LET limit == fetch_size(fb, src.batch_size)
           IN  /\ limit = IF 2 * fb.skips < max_skips THEN Min(StillMissing, 100)
                          ELSE Min(StillMissing, 200)
               /\ limit >= 1
               /\ limit <= StillMissing

\* a widened request: half of max_skips reached, more than 200 records missing
C26_Witness ==
    /\ fb.running
    /\ 2 * fb.skips = max_skips
    /\ StillMissing > WidePageCap
    /\ fetch_size(fb, src.batch_size) = WidePageCap

\* what the source answers to the request a running fetch issues next
NextAnswer == SourceAnswer(src, fb.current_offset, fetch_size(fb, src.batch_size))

\* the ids of the readable records of a page, in the page's order
ReadableIds(messages) ==
    LET Readable(m) == m.readable
        kept == SelectSeq(messages, Readable)
    IN  [k \in 1..Len(kept) |-> kept[k].id]

\* this step is a request the source answers from its content
AnsweredStep == hist'.calls = hist.calls + 1 /\ hist'.injected = hist.injected

\* this step is a request answered with no record, or with fewer than requested
ShortPageStep ==
    /\ AnsweredStep
    /\ NextAnswer.kind = "page"
    /\ Len(NextAnswer.messages) < fetch_size(fb, src.batch_size)

\* the fetch is over after the step; it returns what it had collected together
\* with the readable records of the last page
ReturnsCollected ==
    /\ ~fb'.running
    /\ fb'.valid_messages = fb.valid_messages \o ReadableIds(NextAnswer.messages)

\* C27: a response that is empty or shorter than requested ends the fetch, which
\* returns the records collected so far, and a fetch that is over issues no
\* client call.
C27_StopsAtShortPage ==
    /\ [][ShortPageStep => ReturnsCollected]_vars
    /\ [][~fb.running => hist'.calls = hist.calls /\ fb' = fb]_vars

\* a fetch ended by a page of two records where three were requested
C27_Witness ==
    /\ ~fb.running
    /\ src.ids = {1, 2}
    /\ src.unreadable = {}
    /\ src.offset_id = 0
    /\ src.batch_size = 3
    /\ hist.calls = 1
    /\ fb.valid_messages = <<1, 2>>

\* C28: rate-limited signals and other errors count against one budget, as
\* consecutive failed calls: once max_retries calls have failed, in any mix,
\* with no readable record collected in between, the fetch is over; only a
\* readable record starts the count again.
C28_SharedConsecutiveRetries ==
    hist.failed_run >= max_retries => ~fb.running

\* the roster row of channel c holds an earliest-committed id
HasEarliest(c) == roster[c].earliest_raw_message_ID # 0

\* C29: the commit of a batch writes the channel's earliest-committed id only
\* when the roster row holds none yet (the channel's first committed batch);
\* every later commit leaves the earliest id as it is and writes only the
\* latest-committed id.
C29_EarliestWrittenOnce ==
    [][\A c \in Channels :
          (CommitStep /\ last'.channel_id = c /\ HasEarliest(c))
              => roster'[c].earliest_raw_message_ID = roster[c].earliest_raw_message_ID]_vars

\* the channel the for loop of main stands at
ChannelAtHand == cyc.channels[cyc.idx].ID

\* main looks at the channel at hand and skips it or fetches for it
ChannelStep == pc = "channel" /\ pc' # pc

\* the offset main takes for the channel: the largest last_message_id of the
\* channel's rows (0 without rows) when the process meets the channel for the
\* first time, the offset the process keeps for it otherwise
OffsetTaken ==
    LET c == ChannelAtHand
    IN  IF c \notin DOMAIN channel_states
        THEN /\ last'.offset_before = last_processed_id(batches, c)
             /\ track'.seed[c] = last_processed_id(batches, c)
        ELSE last'.offset_before = channel_states[c].offset_id

\* C23: a process seeds a channel's cursor, the first time it meets the channel,
\* with the largest last-record id of the channel's batch-metadata rows, 0 when
\* there are none; in every later pass it takes the cursor it keeps in memory,
\* whatever the store holds.
C23_SeededOnceFromStore ==
    [][ChannelStep => OffsetTaken]_vars

\* a cursor seeded with 2 from the rows of earlier processes went on to 3 in a
\* batch whose row was not written; the next pass fetched from 3
C23_Witness ==
    /\ JustEmpty
    /\ track.seed[last.channel_id] = 2
    /\ last.offset_before = 3
    /\ last_processed_id(batches, last.channel_id) = 2
    /\ Cardinality({ r \in batches : r.channel_id = last.channel_id }) = 2

\* the handler holds a client
HoldsClient == tg.client # NoClient

\* get_client on a handler that holds a client: that client is returned,
\* nothing is constructed or started
SameClientReturned ==
    (GetClient /\ HoldsClient)
        => /\ tg'.error = "none"
           /\ tg'.returned = tg.client
           /\ tg'.client = tg.client
           /\ tg'.made = tg.made
           /\ tg'.started = tg.started

\* get_client on a handler without client: a session is started and its client
\* held and returned, or the call raises and the handler holds no client
StartedOrNoClient ==
    (GetClient /\ ~HoldsClient)
        => \/ /\ tg'.error = "none"
              /\ tg'.started = tg.started + 1
              /\ tg'.client # NoClient
              /\ tg'.returned = tg'.client
           \/ /\ tg'.error # "none"
              /\ tg'.started = tg.started
              /\ tg'.client = NoClient
              /\ tg'.returned = NoClient

\* disconnect: no client is held afterwards; with a client, the client's
\* disconnect is called once and what it raised is raised; without one,
\* nothing is called and nothing raised
DisconnectedAfter ==
    Disconnect
        => /\ tg'.client = NoClient
           /\ tg'.error = tg'.fault
           /\ tg'.closed = IF HoldsClient THEN tg.closed + 1 ELSE tg.closed
           /\ ~HoldsClient => tg'.error = "none"
           /\ tg'.started = tg.started /\ tg'.made = tg.made

\* C24: get_client on a handler that holds a client returns that client and
\* starts nothing, so that one session runs between two disconnects; a start
\* that raises leaves the handler without client and the error is raised;
\* disconnect leaves the handler without client whether the client's
\* disconnect returned or raised, raising what it raised; without a client
\* disconnect does nothing.
C24_ClientHandler ==
    /\ [][SameClientReturned]_vars
    /\ [][StartedOrNoClient]_vars
    /\ [][DisconnectedAfter]_vars
    /\ [](tg.fault = "start" => (tg.error = "start" /\ ~HoldsClient))
    /\ [](tg.started - tg.closed = IF HoldsClient THEN 1 ELSE 0)

\* the second session of a handler, whose first client was asked for twice
\* and then disconnected
C24_Witness ==
    /\ tg.client = 2
    /\ tg.started = 2
    /\ tg.kept = 1
    /\ tg.closed = 1
    /\ tg.calls = 4
    /\ tg.call = "get_client"

\* what store_messages keeps on disk and in the store
Stored(s) == <<s.files, s.stats, s.media, s.rows, s.channels>>

\* C21: a commit called with no records is a no-op: it writes no batch file,
\* inserts no batch-metadata row and changes no field of the roster.
C21_EmptyCommitWritesNothing ==
    [][(StoreMessages /\ storage'.last.messages = <<>>)
          => Stored(storage') = Stored(storage)]_vars

\* the batch file the last call of store_messages wrote holds every record of
\* the batch, in order, with media = None for the records whose download failed
\* and the attachment's descriptor for the other records with an attachment
AllRecordsInFile ==
    LET l == storage.last
    IN  \E f \in storage.files :
           /\ f.path = l.path
           /\ Len(f.records) = Len(l.messages)
           /\ \A k \in 1..Len(l.messages) :
                 /\ f.records[k].message_id = l.messages[k].id
                 /\ f.records[k].media = NoMedia
                      <=> (~l.messages[k].media \/ l.messages[k].id \in l.failed)

\* the row of the last call counts every record of the batch
AllRecordsCounted ==
    LET l == storage.last
    IN  \E r \in storage.rows :
           /\ r.message_file_path = l.path
           /\ r.channel_id = l.channel_id
           /\ r.message_count = Len(l.messages)

\* C30: a download that fails does not abort the commit: when nothing else
\* fails the call raises nothing and its metadata row counts every record;
\* unless the directories or the batch file cannot be written, the batch file
\* holds every record, the ones whose download failed with media = None.
C30_FailedDownloadKeepsBatch ==
    storage.last.failed # {}
        => /\ storage.last.fault = "none"
                => (storage.last.error = "none" /\ AllRecordsCounted)
           /\ storage.last.fault \notin {"makedirs", "file"} => AllRecordsInFile

\* of two records with attachments the download of the first failed: both are
\* in the file, the second with its attachment, and the row counts two
C30_Witness ==
    /\ storage.last.failed = {1}
    /\ WithMedia(storage.last.messages) = {1, 2}
    /\ storage.last.fault = "none"
    /\ storage.last.error = "none"
    /\ AllRecordsInFile
    /\ AllRecordsCounted
    /\ <<storage.channel_id, 2, storage.calls>> \in storage.media

\* this step is one client call of the fetch, however it was answered
ClientCall == hist'.calls = hist.calls + 1

\* the call brought the end of the fetch closer: the fetch is over, or a record
\* was collected, or one retry of the budget was used up, or the offset moved
\* on towards the source's last record
CloserToTheEnd ==
    \/ ~fb'.running
    \/ Len(fb'.valid_messages) > Len(fb.valid_messages)
    \/ fb'.retries > fb.retries
    \/ fb.current_offset < MaxOf(src.ids) /\ fb'.current_offset > fb.current_offset

\* C32: the fetch ends after a bounded number of client calls whatever the
\* source answers: every client call brings the end closer (it ends the fetch,
\* collects a record, uses up a retry or moves the offset on through the
\* source's records), the record-unreadable signal included.
C32_EveryCallCloserToTheEnd ==
    [][ClientCall => CloserToTheEnd]_vars

\* C33: a fetch never holds, and so never returns, more records than the
\* batch_size it was called with (the source answers a request with at most
\* limit records); messages_fetched counts the records collected.
C33_AtMostBatchSize ==
    /\ Len(fb.valid_messages) <= src.batch_size
    /\ fb.messages_fetched = Len(fb.valid_messages)

\* a fetch that ended with a full batch of two, the source holding a third record
C33_Witness ==
    /\ ~fb.running
    /\ src.ids = 1..MaxSmallId
    /\ src.unreadable = {}
    /\ src.offset_id = 0
    /\ src.batch_size = 2
    /\ fb.valid_messages = <<1, 2>>

\* the ids of the records the fetch has collected
Collected == { fb.valid_messages[k] : k \in 1..Len(fb.valid_messages) }

\* C34: the fetch passes over no readable record: every readable record of
\* the source with an id greater than the offset the fetch was started with and
\* not greater than the id of the last record collected is among the records
\* collected.
C34_NoReadableRecordPassedOver ==
    fb.valid_messages # <<>>
        => \A i \in src.ids \ src.unreadable :
              (src.offset_id < i /\ i <= Last(fb.valid_messages)) => i \in Collected

\* C35: after the roster update for a non-empty batch was written, the
\* channel's earliest-committed id is not greater than its latest-committed id.
C35_EarliestNotAfterLatest ==
    (JustCommitted /\ last.status_written)
        => LET c == last.channel_id
           IN  roster[c].earliest_raw_message_ID <= roster[c].latest_raw_message_ID

\* C36: a roster row that is complete goes back to in_progress only in the
\* step that processes a non-empty batch of that channel: empty fetches and
\* failed status updates leave it complete, also in a process that was
\* started after the row became complete.
C36_CompleteUntilNonEmptyFetch ==
    [][\A c \in Channels :
          (roster[c].FetchStatus = FetchStatusComplete
              /\ roster'[c].FetchStatus = FetchStatusInProgress)
          => (CommitStep /\ last'.channel_id = c)]_vars

\* this step of main is the processing of an empty fetch
EmptyStep == pc = "channel" /\ pc' = "lock_check" /\ last'.kind = "empty"

\* the tuple main holds for the channel at hand when it starts on it
StateAtHand == SeedState(channel_states, cyc.channels[cyc.idx])

\* the row of channel c but for the two columns an empty fetch may write
RowButStatus(row) == [row EXCEPT !.FetchStatus = 0, !.fetch_attempts = 0]

\* C37: an empty fetch for a channel leaves the channel's cursor, batch_count
\* and total_messages_fetched in memory as they were and changes nothing of the
\* roster but FetchStatus and fetch_attempts of the channel's row (earliest and
\* latest committed id stay); it writes no batch row and no file, and the
\* in-memory counter of empty fetches goes up by one.
C37_EmptyFetchFrame ==
    [][EmptyStep
          => LET c == last'.channel_id
             IN  /\ c = ChannelAtHand
                 /\ channel_states'[c] = [StateAtHand EXCEPT !.fetch_attempts = @ + 1]
                 /\ \A d \in DOMAIN channel_states \ {c} :
                        channel_states'[d] = channel_states[d]
                 /\ RowButStatus(roster'[c]) = RowButStatus(roster[c])
                 /\ \A d \in Channels \ {c} : roster'[d] = roster[d]
                 /\ batches' = batches
                 /\ files' = files]_vars

\* an empty fetch after a committed batch: cursor, counts and committed ids stay
C37_Witness ==
    /\ JustEmpty
    /\ last.status_written
    /\ channel_states[last.channel_id] =
           [offset_id |-> 1, fetch_attempts |-> 1, batch_count |-> 1,
            total_messages_fetched |-> 1]
    /\ roster[last.channel_id].latest_raw_message_ID = 1
    /\ roster[last.channel_id].earliest_raw_message_ID = 1
    /\ roster[last.channel_id].fetch_attempts = 1

\* the batch rows of channel c (the process started on an empty table)
BatchRowsOf(c) == { r \in batches : r.channel_id = c }

\* C38: the batch_count main holds for a channel is the number of batch rows
\* the process has inserted for it, so that only committed batches count
\* against max_batches.
C38_BatchCountIsRowsInserted ==
    \A c \in DOMAIN channel_states :
        channel_states[c].batch_count = Cardinality(BatchRowsOf(c))

\* this step is process i running lock_handler.release() in its finally
ReleaseStep(i) == procs'[i].releases = procs[i].releases + 1

\* C39: release removes the file at the lock path only when it is the file
\* the releasing instance created and locked: a file that another instance
\* created at the path after the first one had been removed stays.
C39_ReleaseRemovesOwnFileOnly ==
    [][\A i \in Instances :
          (ReleaseStep(i) /\ disk.at # 0 /\ procs[i].lock_fd.inode # disk.at)
              => disk'.at = disk.at]_vars

\* this step is the acquire of process i that fails with LockError
RefusedAcquireStep(i) ==
    /\ procs[i].pc = "acquire"
    /\ procs'[i].call = "acquire"
    /\ procs'[i].error = "LockError"

\* this step is the release of process i after its acquire failed with LockError
ReleaseAfterRefusalStep(i) ==
    /\ procs[i].call = "acquire"
    /\ procs[i].error = "LockError"
    /\ procs'[i].call = "release"

\* the processes in the service loop
InTheLoop(ps) == { j \in Instances : ps[j].pc \in {"top", "channel", "lock_check"} }

\* C40: neither the acquire that fails with LockError nor the release the
\* finally block then calls on that handler removes the lock file or takes
\* the lock from the instance that holds it: the file at the path, the other
\* processes and the locks they hold are as before, and the other processes
\* go on running.
C40_RefusedHandlerLeavesTheLock ==
    [][\A i \in Instances :
          (RefusedAcquireStep(i) \/ ReleaseAfterRefusalStep(i))
              => /\ disk'.at = disk.at
                 /\ \A j \in Instances \ {i} : procs'[j] = procs[j]
                 /\ LockedByOthers(procs', i) = LockedByOthers(procs, i)
                 /\ InTheLoop(procs') \ {i} = InTheLoop(procs) \ {i}]_vars

\* a process was refused the lock and has exited through its finally; the
\* instance holding the lock is in its loop, its lock file on the path
C40_Witness ==
    \E i, j \in Instances :
        /\ procs[i].pc = "exited"
        /\ procs[i].failed
        /\ procs[i].call = "release"
        /\ procs[j].pc = "channel"
        /\ procs[j].lock_fd = [state |-> "open", inode |-> disk.at]
        /\ disk.at # 0

\* the channels the last cycle's listing holds
Listed == DOMAIN tracker'.df_tele.names

\* this step is a sync cycle that obtained the listing and met no store error
ListingSynced ==
    /\ tracker'.cycles = tracker.cycles + 1
    /\ tracker'.df_tele.obtained
    /\ tracker'.fault = "none"

\* C31: after a sync cycle that obtained the source's listing, whatever its
\* size, every channel of the table missing from the listing has Disappeared =
\* 1 and every channel in the listing has Disappeared = 0; a channel seen for
\* the first time was inserted with Operating = 0 and Disappeared = 0, and
\* Operating of a channel the table held already is as before.
C31_SyncMarksDisappeared ==
    [][ListingSynced
          => LET old == tracker.channels
                 new == tracker'.channels
             IN  /\ DOMAIN new = DOMAIN old \cup Listed
                 /\ \A id \in DOMAIN old \ Listed : new[id].Disappeared = 1
                 /\ \A id \in Listed : new[id].Disappeared = 0
                 /\ \A id \in Listed \ DOMAIN old : new[id].Operating = 0
                 /\ \A id \in DOMAIN old : new[id].Operating = old[id].Operating]_vars

====
